---- MODULE Spec2Model ----
(***************************************************************************)
(* A model of the integration pipeline of hackathon-agents:                *)
(*   IntegrateAndCommit.run            (src/integrateAndCommit.ts)         *)
(*   GitIntegration, InteractiveGitWorkflow   (src/unnamed/part_001)       *)
(*   SUPPORTED_APIS, APIIntegrationGenerator, CodebaseAPIIntegrator        *)
(*                                            (src/unnamed/part_000)       *)
(*                                                                         *)
(* A text (a JavaScript string that reaches a shell or the operator) is a  *)
(* sequence of tokens; the token " " is white space.  A path is a sequence *)
(* of the pieces the template literal concatenates.                        *)
(***************************************************************************)
EXTENDS Integers, Sequences, FiniteSets, TLC

\* ------------------------------------------------------------------ bounds
\* Longest list of requested APIs (options.apis).
MaxApis == 2
\* Most file changes in a plan handed to saveIntegrationPlan on its own.
MaxChanges == 2
\* Most calls of createIntegrationBranch with one name on one working copy.
MaxEnsureCalls == 2
\* Most answers at the approval prompt that lead back to the prompt
\* (detail reviews and invalid choices) in one run.
MaxReprompts == 2

\* ------------------------------------------------------------ text helpers
SP == " "

RECURSIVE Join(_, _)
\* Array.prototype.join for an array of texts: the texts separated by sep.
Join(texts, sep) ==
  IF Len(texts) = 0 THEN <<>>
  ELSE IF Len(texts) = 1 THEN texts[1]
  ELSE texts[1] \o sep \o Join(Tail(texts), sep)

RECURSIVE TrimLeft(_)
TrimLeft(t) == IF Len(t) > 0 /\ t[1] = SP THEN TrimLeft(Tail(t)) ELSE t

RECURSIVE TrimRight(_)
TrimRight(t) ==
  IF Len(t) > 0 /\ t[Len(t)] = SP THEN TrimRight(SubSeq(t, 1, Len(t) - 1)) ELSE t

\* String.prototype.trim.
Trim(t) == TrimRight(TrimLeft(t))

RECURSIVE ShellSplit(_)
\* The words /bin/sh makes of an unquoted command line: maximal runs of
\* tokens that are not white space.
ShellSplit(t) ==
  LET s == TrimLeft(t) IN
  IF Len(s) = 0 THEN <<>>
  ELSE LET n == CHOOSE k \in 1..Len(s) :
                  /\ \A j \in 1..k : s[j] # SP
                  /\ (k = Len(s) \/ s[k + 1] = SP)
       IN <<SubSeq(s, 1, n)>> \o ShellSplit(SubSeq(s, n + 1, Len(s)))

\* A one-token text.
W(s) == <<s>>

\* ------------------------------------------------------ capability catalog
\* A JavaScript object is the sequence of its <<key, value>> entries in
\* insertion order, each key once.
EmptyObject == <<>>

Keys(obj) == {obj[j][1] : j \in 1..Len(obj)}

\* obj[key], for a key of obj.
Get(obj, key) == obj[CHOOSE j \in 1..Len(obj) : obj[j][1] = key][2]

\* obj[key] = value: an existing key keeps its place, a new key goes last.
Put(obj, key, value) ==
  IF key \in Keys(obj)
    THEN [j \in 1..Len(obj) |-> IF obj[j][1] = key THEN <<key, value>> ELSE obj[j]]
    ELSE Append(obj, <<key, value>>)

\* An assignment that replaces the target by the source.
ObjectReplace(target, source) == source

RECURSIVE ObjectAssign(_, _)
\* Object.assign(target, source): source's entries put into target in
\* source's order.
ObjectAssign(target, source) ==
  IF Len(source) = 0 THEN target
  ELSE ObjectAssign(Put(target, source[1][1], source[1][2]), Tail(source))

\* One entry of SUPPORTED_APIS: name, npmDependencies, envVars, and whether
\* the entry has a setupCode.
ApiConfig(name, deps, env, setup) ==
  [name |-> name, npmDependencies |-> deps, envVars |-> env, setupCode |-> setup]

\* A catalog whose entries declare a variable without a placeholder.
BlankCatalog(key) == ApiConfig(key, <<>>, << <<"API_KEY", "">> >>, FALSE)

\* The keys of SUPPORTED_APIS, lines 48-182.
CatalogKeys ==
  {"senso", "airia", "openai", "intercom", "elevenlabs", "sentry", "snowflake",
   "redpanda", "truefoundry", "stripe", "twilio", "segment"}

\* SUPPORTED_APIS[key], for a key of the catalog.
SUPPORTED_APIS(key) ==
  CASE key = "senso" ->
         ApiConfig("Senso", <<"axios">>,
           << <<"SENSO_API_KEY", "<your-api-key>">>,
              <<"SENSO_BASE_URL", "https://sdk.senso.ai/api/v1">> >>, FALSE)
    [] key = "airia" ->
         ApiConfig("Airia", <<"axios">>,
           << <<"AIRIA_TOKEN", "<your-token>">>,
              <<"AIRIA_BASE_URL", "https://api.airia.ai/v1">> >>, FALSE)
    [] key = "openai" ->
         ApiConfig("OpenAI", <<"openai">>,
           << <<"OPENAI_API_KEY", "<your-api-key>">> >>, FALSE)
    [] key = "intercom" ->
         ApiConfig("Intercom", <<"intercom-client">>,
           << <<"INTERCOM_APP_ID", "<your-workspace-id>">>,
              <<"INTERCOM_ACCESS_TOKEN", "<your-access-token>">>,
              <<"INTERCOM_API_BASE", "https://api.intercom.io">> >>, TRUE)
    [] key = "elevenlabs" ->
         ApiConfig("ElevenLabs", <<"elevenlabs">>,
           << <<"ELEVEN_API_KEY", "<your-api-key>">>,
              <<"ELEVEN_VOICE_ID", "Rachel">> >>, FALSE)
    [] key = "sentry" ->
         ApiConfig("Sentry", <<"@sentry/node", "@sentry/tracing">>,
           << <<"SENTRY_DSN", "https://<key>@<org>.ingest.sentry.io/<project>">> >>,
           FALSE)
    [] key = "snowflake" ->
         ApiConfig("Snowflake", <<"snowflake-sdk">>,
           << <<"SNOWFLAKE_USER", "<user>">>,
              <<"SNOWFLAKE_PASSWORD", "<password>">>,
              <<"SNOWFLAKE_ACCOUNT", "<account.region>">>,
              <<"SNOWFLAKE_WAREHOUSE", "COMPUTE_WH">>,
              <<"SNOWFLAKE_DATABASE", "DEMO_DB">>,
              <<"SNOWFLAKE_SCHEMA", "PUBLIC">> >>, FALSE)
    [] key = "redpanda" ->
         ApiConfig("Redpanda", <<"kafkajs">>,
           << <<"REDPANDA_BROKERS", "localhost:9092">>,
              <<"REDPANDA_TOPIC", "events.demo">> >>, FALSE)
    [] key = "truefoundry" ->
         ApiConfig("TrueFoundry", <<"axios">>,
           << <<"TRUEFOUNDRY_ENDPOINT",
                "https://your-control-plane.truefoundry.com/api/llm">>,
              <<"TRUEFOUNDRY_TOKEN", "<token>">> >>, FALSE)
    [] key = "stripe" ->
         ApiConfig("Stripe", <<"stripe">>,
           << <<"STRIPE_SECRET_KEY", "sk_test_...">>,
              <<"STRIPE_PUBLISHABLE_KEY", "pk_test_...">>,
              <<"STRIPE_WEBHOOK_SECRET", "whsec_...">> >>, FALSE)
    [] key = "twilio" ->
         ApiConfig("Twilio", <<"twilio">>,
           << <<"TWILIO_ACCOUNT_SID", "<your-account-sid>">>,
              <<"TWILIO_AUTH_TOKEN", "<your-auth-token>">>,
              <<"TWILIO_PHONE_NUMBER", "+1234567890">> >>, FALSE)
    [] key = "segment" ->
         ApiConfig("Segment", <<"analytics-node">>,
           << <<"SEGMENT_WRITE_KEY", "<your-write-key>">> >>, FALSE)

\* The identifiers an operator can request: two catalog keys, a catalog key
\* in another letter case, and a name the catalog does not hold.
ApiNames == {"senso", "airia", "OpenAI", "bogus"}

\* The identifiers requested when the plan builders are compared: two catalog
\* keys that share a dependency, one with two dependencies of its own, a
\* catalog key in another letter case, and a name the catalog does not hold.
BuilderNames == {"senso", "airia", "sentry", "OpenAI", "bogus"}

\* String.prototype.toLowerCase on the requested identifiers.
ToLowerCase(name) == IF name = "OpenAI" THEN "openai" ELSE name

\* SUPPORTED_APIS[k] is defined (truthy).
Supported(k) == k \in CatalogKeys

RECURSIVE SeqsUpTo(_, _)
SeqsUpTo(S, n) ==
  IF n = 0 THEN {<<>>}
  ELSE LET shorter == SeqsUpTo(S, n - 1) IN
       shorter \cup {Append(s, x) : s \in {t \in shorter : Len(t) = n - 1}, x \in S}

\* A builder that leaves the dependency list as it was collected.
KeepAll(list) == list

RECURSIVE Dedup(_)
\* [...new Set(list)]: each element once, in order of first occurrence.
Dedup(list) ==
  IF Len(list) = 0 THEN <<>>
  ELSE LET front == Dedup(SubSeq(list, 1, Len(list) - 1))
           last == list[Len(list)]
       IN IF \E j \in 1..Len(front) : front[j] = last THEN front
          ELSE Append(front, last)

Range(s) == {s[j] : j \in 1..Len(s)}

\* ------------------------------------------------------------------- files
\* A document (the content of a file) is the sequence of its lines; a line is
\* a sequence of tokens.  A directory is a function from the paths of its
\* files to their documents.
NoFiles == [f \in {} |-> <<>>]

\* A write that adds the new content after what the file holds.
AppendFile(files, path, doc) ==
  [f \in DOMAIN files \cup {path} |->
     IF f # path THEN files[f]
     ELSE IF path \in DOMAIN files THEN files[path] \o doc ELSE doc]

\* fs.writeFileSync(path, doc): create the file or replace its content.
WriteFile(files, path, doc) ==
  [f \in DOMAIN files \cup {path} |-> IF f = path THEN doc ELSE files[f]]

\* `response.choices[0].message.content?.trim() || ''`: the text the
\* generation collaborator returns for its n-th call.  Nothing makes two
\* calls return the same text.
CollaboratorText(call, n) == << call \o [j \in 1..n |-> "'"] >>


\* ------------------------------------------------------------------- state
VARIABLES
  pc,          \* position of IntegrateAndCommit.run, or of the operation
               \* under study in the other specifications
  opts,        \* options: apis, autoApprove, pushToRemote, keepClone
  hasKey,      \* getOpenAIKey() returned a key
  dirExists,   \* fs.existsSync(cloneDir)
  acquired,    \* cloneRepository returned normally in this run
  info,        \* codebaseInfo of the analysis
  idx,         \* index of the for loop over apis in the plan builder
  genCalls,    \* calls made to the generation collaborator, in order
  planState,   \* "none" | "building" | "built": the plan run() holds
  plan,        \* the integration plan object
  disk,        \* the files saveIntegrationPlan wrote under its output root
  prompts,     \* answers at the approval prompt that led back to it
  approved,    \* "none" | "yes" | "no": outcome of the approval
  repo,        \* the working copy's git state
  gitLog,      \* every command GitIntegration.runGitCommand ran, in order
  wf,          \* locals of commitAndPush and what it reported
  console,     \* tags of the messages printed
  result,      \* "none" | "true" | "false": what run() returned;
               \* "plan" | "threw": how analyzeAndIntegrate ended
  rm           \* "none" | "ok" | "failed": fs.rmSync in the finally block

vars == <<pc, opts, hasKey, dirExists, acquired, info, idx, genCalls, planState,
          plan, disk, prompts, approved, repo, gitLog, wf, console, result, rm>>

\* An optional boolean option: true, false, or not supplied.
OptBool == {"true", "false", "undefined"}

\* JavaScript truthiness of an optional boolean.
Truthy(v) == v = "true"

\* A parameter declared `p: boolean = true` receiving v: undefined takes the
\* default.
DefaultTrue(v) == IF v = "undefined" THEN TRUE ELSE v = "true"

\* createIntegrationBranch's derived name, api-integrations-<timestamp>.
DerivedBranch == "api-integrations-ts"

\* The branch a fresh clone is on, and the hash of its HEAD.
CloneBranch == "main"
CloneHead == "h0"
NewHash == "h1"

EmptyPlan ==
  [changes |-> <<>>, npmDependencies |-> <<>>, envPlaceholders |-> EmptyObject,
   notes |-> <<>>, setupInstructions |-> <<>>, apis |-> <<>>,
   commitMessage |-> <<>>]

InitRepo ==
  [head |-> CloneBranch, branches |-> {CloneBranch}, staged |-> {},
   headHash |-> CloneHead, newCommits |-> 0, commitBranch |-> "",
   refKind |-> "none", pushed |-> FALSE]

\* What is kept of the workflow and of the two readline interfaces: rl is the
\* one the InteractiveGitWorkflow constructor creates (part_001 lines
\* 200-203), runRl the one the IntegrateAndCommit constructor created
\* (integrateAndCommit.ts lines 35-38).
InitWf ==
  [branchName |-> "", message |-> <<>>, commitCalls |-> 0, commitOk |-> FALSE,
   commitHash |-> "", pushCalls |-> 0, pushOk |-> FALSE, manualCmd |-> <<>>,
   prInfo |-> FALSE, returned |-> "none", rl |-> "none", runRl |-> "open"]

InitInfo == [hasTypeScript |-> FALSE, framework |-> "none", isWebApp |-> FALSE,
             language |-> "none"]

Init ==
  /\ pc = "start"
  /\ opts \in [apis : SeqsUpTo(ApiNames, MaxApis), autoApprove : BOOLEAN,
               pushToRemote : OptBool, keepClone : BOOLEAN]
  /\ hasKey \in BOOLEAN
  /\ dirExists \in BOOLEAN
  /\ acquired = FALSE
  /\ info = InitInfo
  /\ idx = 1
  /\ genCalls = <<>>
  /\ planState = "none"
  /\ plan = EmptyPlan
  /\ disk = NoFiles
  /\ prompts = 0
  /\ approved = "none"
  /\ repo = InitRepo
  /\ gitLog = <<>>
  /\ wf = InitWf
  /\ console = {}
  /\ result = "none"
  /\ rm = "none"

\* ------------------------------------------------------- IntegrateAndCommit
\* A catch block that logs the error and goes on to save what was built.
CaughtGoesOn(tag) ==
  /\ console' = console \cup {tag}
  /\ result' = "false"
  /\ pc' = "save"

\* The catch block of run(): log the error, return false; the finally block
\* follows.
Caught(tag) ==
  /\ console' = console \cup {tag}
  /\ result' = "false"
  /\ pc' = "finally"

\* run(), lines 42-48: without a key run returns false before the try block.
GetKey ==
  /\ pc = "start"
  /\ IF hasKey
       THEN /\ pc' = "clone"
            /\ UNCHANGED <<console, result>>
       ELSE /\ pc' = "done"
            /\ console' = console \cup {"key required"}
            /\ result' = "false"
  /\ UNCHANGED <<opts, hasKey, dirExists, acquired, info, idx, genCalls,
                 planState, plan, disk, prompts, approved, repo, gitLog, wf, rm>>

\* cloneRepository: git clone into cloneDir.  It fails when the directory is
\* already there, and can fail otherwise (network, bad URL); a failure is
\* rethrown and caught by run().
Clone ==
  /\ pc = "clone"
  /\ \E ok \in BOOLEAN :
       IF ok /\ ~dirExists
         THEN /\ dirExists' = TRUE
              /\ acquired' = TRUE
              /\ pc' = "analyze"
              /\ UNCHANGED <<console, result>>
         ELSE /\ Caught("clone failed")
              /\ UNCHANGED <<dirExists, acquired>>
  /\ UNCHANGED <<opts, hasKey, info, idx, genCalls, planState, plan, disk,
                 prompts, approved, repo, gitLog, wf, rm>>

\* What CodebaseAnalyzer.analyze can return for the clone.
Infos ==
  { [hasTypeScript |-> TRUE, framework |-> "React", isWebApp |-> TRUE,
     language |-> "typescript"],
    [hasTypeScript |-> FALSE, framework |-> "none", isWebApp |-> FALSE,
     language |-> "javascript"] }

\* analyzeAndIntegrateWithoutCleanup, lines 182-225: analyze (which throws on
\* an unreadable entry or a malformed package.json), then start an empty plan.
Analyze ==
  /\ pc = "analyze"
  /\ \/ /\ \E ci \in Infos : info' = ci
        /\ planState' = "building"
        /\ idx' = 1
        /\ pc' = "build"
        /\ UNCHANGED <<console, result>>
     \/ /\ Caught("analysis failed")
        /\ UNCHANGED <<info, planState, idx>>
  /\ UNCHANGED <<opts, hasKey, dirExists, acquired, genCalls, plan, disk,
                 prompts, approved, repo, gitLog, wf, rm>>

FileExt(ci) == IF ci.hasTypeScript THEN "ts" ELSE "js"

\* `integrations/${apiKey}Integration.${fileExt}`
IntegrationPath(apiKey, ext) == <<"integrations/", apiKey, "Integration.", ext>>
\* A builder that gives the usage example the path of the index.
DemoPathAsIndex(ext) == <<"integrations/", "index.", ext>>

DemoPath(ext) == <<"integrations/", "integrationDemo.", ext>>
IndexPath(ext) == <<"integrations/", "index.", ext>>

\* One iteration of the for loop over apis, lines 230-268.
BuildStep ==
  /\ pc = "build"
  /\ idx <= Len(opts.apis)
  /\ LET apiKey == ToLowerCase(opts.apis[idx]) IN
     IF ~Supported(apiKey)
       THEN \* `continue` after the warning
            /\ console' = console \cup {"skipping unknown api"}
            /\ idx' = idx + 1
            /\ UNCHANGED <<pc, result, genCalls, plan, planState>>
       ELSE LET cfg == SUPPORTED_APIS(apiKey) IN
            /\ genCalls' = Append(genCalls, <<"code", apiKey>>)
            /\ \/ /\ plan' = [plan EXCEPT
                       !.changes = Append(@,
                          [path |-> IntegrationPath(apiKey, FileExt(info)),
                           updated |-> CollaboratorText(<<"code", apiKey>>,
                                                        Len(genCalls) + 1),
                           description |-> <<cfg.name, "integration module">>]),
                       !.npmDependencies = @ \o cfg.npmDependencies,
                       !.envPlaceholders = ObjectAssign(@, cfg.envVars),
                       !.setupInstructions =
                          IF cfg.setupCode
                            THEN Append(@, <<cfg.name, ":", SP, "<setupCode>">>)
                            ELSE @]
                  /\ idx' = idx + 1
                  /\ UNCHANGED <<pc, console, result, planState>>
               \/ /\ Caught("generation failed")
                  /\ planState' = "none"
                  /\ UNCHANGED <<idx, plan>>
  /\ UNCHANGED <<opts, hasKey, dirExists, acquired, info, disk, prompts,
                 approved, repo, gitLog, wf, rm>>

\* generateIndexFile, lines 311-322 (and part_000, lines 673-682, which
\* differs in the header of a JavaScript index): the header and an empty
\* line, one export line per requested name (the empty string, one empty line,
\* when none is requested), an empty line, the export of the demo.
GenerateIndexFile(apis, isTypeScript, jsHeader) ==
  << <<IF isTypeScript THEN "// API Integration Exports" ELSE jsHeader>>, <<>> >>
    \o (IF Len(apis) = 0 THEN << <<>> >>
        ELSE [j \in 1..Len(apis) |->
                <<"export * from './", ToLowerCase(apis[j]), "Integration';">>])
    \o << <<>>, <<"export { default as demo } from './integrationDemo';">> >>

\* generateIntegrationUsage, part_000 line 407: SUPPORTED_APIS[name].name for
\* every requested name as given (not lowercased); a name that is no key
\* makes it throw a TypeError before the collaborator is called.
UsageLookupThrows(apis) == \E j \in 1..Len(apis) : ~Supported(apis[j])

\* The notes the builder appends, lines 299-306; each note is a text.
Notes(apis, ci) ==
  << <<"Generated integrations for: ">>
       \o Join([j \in 1..Len(apis) |-> W(apis[j])], <<", ">>),
     <<"Target: ", ci.language>>
       \o (IF ci.hasTypeScript THEN <<" (TypeScript)">> ELSE <<>>) >>
    \o (IF ci.framework # "none" THEN << <<"Framework: ", ci.framework>> >>
        ELSE <<>>)
    \o (IF ci.isWebApp
          THEN << <<"Web application - generated browser-compatible code">> >>
          ELSE <<>>)

\* The rest of the builder, lines 270-308: usage example, index file,
\* deduplicated dependencies, notes; then run() line 84 adds plan.apis.
BuildFinish ==
  /\ pc = "build"
  /\ idx > Len(opts.apis)
  /\ IF UsageLookupThrows(opts.apis)
       THEN /\ Caught("type error")
            /\ planState' = "none"
            /\ UNCHANGED <<genCalls, plan>>
       ELSE /\ genCalls' = Append(genCalls, <<"usage">>)
            /\ \/ /\ plan' = [plan EXCEPT
                       !.changes = @ \o
                          << [path |-> DemoPath(FileExt(info)),
                              updated |-> CollaboratorText(<<"usage">>,
                                                           Len(genCalls) + 1),
                              description |-> <<"Integration usage example">>],
                             [path |-> IndexPath(FileExt(info)),
                              updated |-> GenerateIndexFile(opts.apis,
                                            info.hasTypeScript,
                                            "/** @module integrations */"),
                              description |-> <<"Integration exports">>] >>,
                       !.npmDependencies = Dedup(@),
                       !.notes = @ \o Notes(opts.apis, info)]
                  /\ planState' = "built"
                  /\ pc' = "save"
                  /\ UNCHANGED <<console, result>>
               \/ /\ Caught("generation failed")
                  /\ planState' = "none"
                  /\ UNCHANGED plan
  /\ UNCHANGED <<opts, hasKey, dirExists, acquired, info, idx, disk, prompts,
                 approved, repo, gitLog, wf, rm>>

RECURSIVE DependenciesObject(_)
\* saveIntegrationPlan, lines 706-709: the reduce that maps every dependency
\* to 'latest'.
DependenciesObject(deps) ==
  IF Len(deps) = 0 THEN EmptyObject
  ELSE Put(DependenciesObject(SubSeq(deps, 1, Len(deps) - 1)),
           deps[Len(deps)], "latest")

\* JSON.stringify({dependencies: obj}, null, 2), line 713.
PackageAdditions(deps) ==
  LET obj == DependenciesObject(deps) IN
  << <<"{">>, <<"\"dependencies\"", ":", "{">> >>
    \o [j \in 1..Len(obj) |->
          <<obj[j][1], ":", obj[j][2]>> \o (IF j < Len(obj) THEN <<",">> ELSE <<>>)]
    \o << <<"}">>, <<"}">> >>

\* Lines 719-724: one `${key}=${value}` line per entry.
EnvExample(env) == [j \in 1..Len(env) |-> <<env[j][1], "=", env[j][2]>>]

\* Line 730: the heading, an empty line, then `- ${note}` for each note.
NotesDocument(notes) ==
  << <<"# API Integration Notes">>, <<>> >>
    \o [j \in 1..Len(notes) |-> <<"- ">> \o notes[j]]

\* Line 738: the heading, an empty line, then the instructions separated by
\* an empty line.
SetupDocument(instructions) ==
  << <<"# Setup Instructions">>, <<>> >>
    \o Join([j \in 1..Len(instructions) |-> <<instructions[j]>>], << <<>> >>)

\* A persister that writes every derived artifact, whatever its collection
\* holds.
Always(collection) == TRUE

\* `collection.length > 0`, the guard of each derived artifact (lines 704,
\* 718, 729, 737).
HasEntries(collection) == Len(collection) > 0

\* saveIntegrationPlan, lines 690-742: the writeFileSync calls it makes for
\* a plan, in order.
Writes(p) ==
  [j \in 1..Len(p.changes) |->
     [path |-> p.changes[j].path, content |-> p.changes[j].updated]]
    \o (IF HasEntries(p.npmDependencies)
          THEN << [path |-> <<"package_additions.json">>,
                   content |-> PackageAdditions(p.npmDependencies)] >>
          ELSE <<>>)
    \o (IF HasEntries(p.envPlaceholders)
          THEN << [path |-> <<".env.example">>,
                   content |-> EnvExample(p.envPlaceholders)] >>
          ELSE <<>>)
    \o (IF HasEntries(p.notes)
          THEN << [path |-> <<"INTEGRATION_NOTES.md">>,
                   content |-> NotesDocument(p.notes)] >>
          ELSE <<>>)
    \o (IF HasEntries(p.setupInstructions)
          THEN << [path |-> <<"SETUP.md">>,
                   content |-> SetupDocument(p.setupInstructions)] >>
          ELSE <<>>)

RECURSIVE ApplyWrites(_, _)
ApplyWrites(files, writes) ==
  IF Len(writes) = 0 THEN files
  ELSE ApplyWrites(WriteFile(files, writes[1].path, writes[1].content),
                   Tail(writes))

\* saveIntegrationPlan(p, outputDir) returning normally: outputDir, holding
\* files before the call, after it.
SaveIntegrationPlan(p, files) == ApplyWrites(files, Writes(p))

\* saveIntegrationPlan throwing at its (k+1)-th write: the first k are done.
SaveInterrupted(p, files, k) == ApplyWrites(files, SubSeq(Writes(p), 1, k))

\* run(), lines 79-84: persist the plan (a write can throw), then add the
\* requested names to it.
Save ==
  /\ pc = "save"
  /\ \/ /\ disk' = SaveIntegrationPlan(plan, disk)
        /\ plan' = [plan EXCEPT !.apis = opts.apis]
        /\ pc' = "workflow"
        /\ UNCHANGED <<console, result>>
     \/ /\ \E k \in 0..(Len(Writes(plan)) - 1) :
             disk' = SaveInterrupted(plan, disk, k)
        /\ Caught("save failed")
        /\ UNCHANGED plan
  /\ UNCHANGED <<opts, hasKey, dirExists, acquired, info, idx, genCalls,
                 planState, prompts, approved, repo, gitLog, wf, rm>>


\* ---------------------------------------------------------- GitIntegration
\* command.join(' ') of runGitCommand: the command line handed to the shell
\* after "git ".
CommandLine(args) == Join(args, W(SP))

\* runGitCommand: what git receives is the shell's splitting of the command
\* line; the log keeps it with the exit code.
Ran(args, code) == [argv |-> ShellSplit(CommandLine(args)), code |-> code]

\* A pushChanges that adds the force flag whatever `force` is.
PushArgsForced(branch, remote, force) ==
  <<W("push"), W(remote), W(branch), W("--force-with-lease")>>

\* pushChanges, lines 123-126: the arguments of the push.
PushArgs(branch, remote, force) ==
  <<W("push"), W(remote), W(branch)>>
    \o (IF force THEN <<W("--force-with-lease")>> ELSE <<>>)

\* commitChanges, lines 109-113 (no caller passes an author).
CommitArgs(message) == <<W("commit"), W("-m"), message>>

\* git commit succeeds only if something is staged and the command line
\* holds nothing after the message word: further words are pathspecs, and
\* none of them names a file of the working copy.
CommitCanSucceed(message, staged) ==
  /\ staged # {}
  /\ Len(ShellSplit(CommandLine(CommitArgs(message)))) = 3

\* --------------------------------------------------- InteractiveGitWorkflow
\* generateDefaultMessage, lines 314-320.
GenerateDefaultMessage(p) ==
  IF Len(p.apis) > 0
    THEN <<"Add", SP, "API", SP, "integrations", SP, "for", SP>>
           \o Join([j \in 1..Len(p.apis) |-> W(p.apis[j])], <<",", SP>>)
    ELSE <<"Add", SP, "API", SP, "integrations">>

\* What the operator can type at the approval prompt.
Answers == {W("1"), <<SP, "1">>, W("2"), W("3"), W("4"), W("x"), <<>>}

\* What the operator can type as a custom commit message.
CustomInputs == {<<>>, W(SP), W("wip"), <<"fix", SP, "build">>}

\* getCustomCommitMessage, lines 308-312: message.trim() || default.
GetCustomCommitMessage(input, p) ==
  IF Trim(input) # <<>> THEN Trim(input) ELSE GenerateDefaultMessage(p)

\* run(), lines 86-90: new InteractiveGitWorkflow (GitIntegration's
\* constructor throws when the path is missing, before the workflow's
\* readline interface is created) and showChangesSummary, which only prints.
StartWorkflow ==
  /\ pc = "workflow"
  /\ IF dirExists
       THEN /\ pc' = "approval"
            /\ wf' = [wf EXCEPT !.rl = "open"]
            /\ console' = console \cup {"summary"}
            /\ UNCHANGED result
       ELSE /\ Caught("not a repository")
            /\ UNCHANGED wf
  /\ UNCHANGED <<opts, hasKey, dirExists, acquired, info, idx, genCalls,
                 planState, plan, disk, prompts, approved, repo, gitLog, rm>>

\* run(), lines 94-96.
AutoApprove ==
  /\ pc = "approval"
  /\ opts.autoApprove
  /\ approved' = "yes"
  /\ pc' = "branch"
  /\ UNCHANGED <<opts, hasKey, dirExists, acquired, info, idx, genCalls,
                 planState, plan, disk, prompts, repo, gitLog, wf, console,
                 result, rm>>

\* run(), lines 125-128: not approved.
NotApproved ==
  /\ approved' = "no"
  /\ console' = console \cup {"commit cancelled", "changes not approved"}
  /\ result' = "false"
  /\ pc' = "finally"

\* getUserApproval, lines 244-277: one answer at the prompt.  Choice 2 and an
\* invalid choice call getUserApproval again.
Prompt ==
  /\ pc = "approval"
  /\ ~opts.autoApprove
  /\ \E answer \in Answers :
       LET choice == Trim(answer) IN
       CASE choice = W("1") ->
              /\ approved' = "yes"
              /\ pc' = "branch"
              /\ UNCHANGED <<plan, prompts, console, result>>
         [] choice = W("2") ->
              /\ prompts < MaxReprompts
              /\ prompts' = prompts + 1
              /\ console' = console \cup {"detailed changes"}
              /\ UNCHANGED <<plan, approved, pc, result>>
         [] choice = W("3") ->
              \E input \in CustomInputs :
                LET customMessage == GetCustomCommitMessage(input, plan) IN
                IF customMessage # <<>>
                  THEN /\ plan' = [plan EXCEPT !.commitMessage = customMessage]
                       /\ approved' = "yes"
                       /\ pc' = "branch"
                       /\ UNCHANGED <<prompts, console, result>>
                  ELSE /\ NotApproved
                       /\ UNCHANGED <<plan, prompts>>
         [] choice = W("4") ->
              /\ NotApproved
              /\ UNCHANGED <<plan, prompts>>
         [] OTHER ->
              /\ prompts < MaxReprompts
              /\ prompts' = prompts + 1
              /\ console' = console \cup {"invalid choice"}
              /\ UNCHANGED <<plan, approved, pc, result>>
  /\ UNCHANGED <<opts, hasKey, dirExists, acquired, info, idx, genCalls,
                 planState, disk, repo, gitLog, wf, rm>>

\* What the name given to createIntegrationBranch resolves to in the working
\* copy before the first call: nothing, a local branch, or another ref (a
\* tag).
RefKinds == {"none", "branch", "tag"}

\* A working copy in which name resolves to a ref of the given kind.
WithRef(r, name, ref) ==
  [r EXCEPT !.refKind = ref,
            !.branches = IF ref = "branch" THEN @ \cup {name} ELSE @]

\* getCurrentBranch, lines 71-74: the trimmed output of
\* `git branch --show-current`, which is empty when HEAD is detached.
GetCurrentBranch(r) == r.head

\* createIntegrationBranch(name), lines 82-93, in working copy r: rev-parse
\* --verify, which succeeds for any ref of that name, then checkout or
\* checkout -b, which succeeds or not (ok); the result of the checkout is not
\* looked at and the name is returned either way.  Checking out a tag
\* detaches HEAD.
CreateIntegrationBranch(r, name, ok) ==
  LET exists == name \in r.branches \/ r.refKind = "tag"
      verify == Ran(<<W("rev-parse"), W("--verify"), W(name)>>,
                    IF exists THEN 0 ELSE 1)
      checkout == IF exists
                    THEN Ran(<<W("checkout"), W(name)>>, IF ok THEN 0 ELSE 1)
                    ELSE Ran(<<W("checkout"), W("-b"), W(name)>>,
                             IF ok THEN 0 ELSE 1)
  IN [log |-> <<verify, checkout>>,
      repo |-> [r EXCEPT
                  !.branches = IF ~exists /\ ok THEN @ \cup {name} ELSE @,
                  !.head = IF ~ok THEN @
                           ELSE IF name \in r.branches \/ ~exists THEN name
                           ELSE ""],
      returned |-> name]

\* commitAndPush, line 328: createIntegrationBranch called without a name,
\* which derives one (lines 77-80).
EnsureBranch ==
  /\ pc = "branch"
  /\ \E ref \in RefKinds, ok \in BOOLEAN :
       LET call == CreateIntegrationBranch(WithRef(repo, DerivedBranch, ref),
                                           DerivedBranch, ok)
       IN /\ gitLog' = gitLog \o call.log
          /\ repo' = call.repo
          /\ wf' = [wf EXCEPT !.branchName = call.returned]
  /\ pc' = "stage"
  /\ UNCHANGED <<opts, hasKey, dirExists, acquired, info, idx, genCalls,
                 planState, plan, disk, prompts, approved, console, result, rm>>

\* commitAndPush, line 337.
AdditionalFiles ==
  << <<".env.example">>, <<"package_additions.json">>,
     <<"INTEGRATION_NOTES.md">>, <<"SETUP.md">> >>

\* The paths of a list that exist in the working copy, in the list's order.
Existing(paths, files) == SelectSeq(paths, LAMBDA f : f \in files)

\* commitAndPush, lines 331-343, with addFiles, lines 96-106: git add for
\* each listed path that exists.  git add's result is not looked at; it adds
\* the paths, or none of them when the repository ignores the directory.
Stage ==
  /\ pc = "stage"
  /\ LET filesToAdd == [j \in 1..Len(plan.changes) |-> plan.changes[j].path]
         toAdd == Existing(filesToAdd, DOMAIN disk)
                    \o Existing(AdditionalFiles, DOMAIN disk)
     IN \E ok \in BOOLEAN :
          /\ gitLog' = gitLog \o
               [j \in 1..Len(toAdd) |->
                  Ran(<<W("add")>> \o <<toAdd[j]>>, IF ok THEN 0 ELSE 1)]
          /\ repo' = [repo EXCEPT
               !.staged = IF ok THEN @ \cup Range(toAdd) ELSE @]
  /\ pc' = "commit"
  /\ UNCHANGED <<opts, hasKey, dirExists, acquired, info, idx, genCalls,
                 planState, plan, disk, prompts, approved, wf, console, result, rm>>


\* A commitAndPush that asks the operator again when git commit failed.
AfterCommitAsk(commitOk) == IF commitOk THEN "push" ELSE "approval"

\* A commitAndPush that tries the commit again when git commit failed.
AfterCommitRetry(commitOk) == IF commitOk THEN "push" ELSE "commit"

\* Where commitAndPush goes after commitChanges returned: line 349 prints the
\* hash and line 352 follows, whatever the commit command's exit code was.
AfterCommit(commitOk) == "push"

\* commitAndPush, lines 345-349, with commitChanges, lines 108-120: run the
\* commit, ignore its result, and return the trimmed output of
\* rev-parse HEAD.
Commit ==
  /\ pc = "commit"
  /\ LET message == IF plan.commitMessage # <<>> THEN plan.commitMessage
                    ELSE GenerateDefaultMessage(plan)
     IN \E gitOk \in BOOLEAN :
          LET ok == gitOk /\ CommitCanSucceed(message, repo.staged)
              after == IF ok
                         THEN [repo EXCEPT !.headHash = NewHash,
                                           !.newCommits = @ + 1,
                                           !.commitBranch = repo.head,
                                           !.staged = {}]
                         ELSE repo
          IN /\ repo' = after
             /\ gitLog' = gitLog \o
                  << Ran(CommitArgs(message), IF ok THEN 0 ELSE 1),
                     Ran(<<W("rev-parse"), W("HEAD")>>, 0) >>
             /\ wf' = [wf EXCEPT !.message = message,
                                 !.commitCalls = @ + 1,
                                 !.commitOk = ok,
                                 !.commitHash = after.headHash]
             /\ console' = console \cup {"commit created"}
             /\ pc' = AfterCommit(ok)
  /\ UNCHANGED <<opts, hasKey, dirExists, acquired, info, idx, genCalls,
                 planState, plan, disk, prompts, approved, result, rm>>

\* git push origin <branch> can succeed only if <branch> names a local ref.
PushCanSucceed(branch, r) == branch \in r.branches \/ r.refKind = "tag"

\* A report that prints the pull-request description whatever the push did.
PushReportAlwaysPr(pushed, branch) ==
  [prInfo |-> TRUE,
   manualCmd |-> IF pushed THEN <<>>
                 ELSE <<"git", SP, "push", SP, "origin", SP, branch>>]

\* commitAndPush, lines 356-372: what is reported after the push.
PushReport(pushed, branch) ==
  IF pushed
    THEN [prInfo |-> TRUE, manualCmd |-> <<>>]
    ELSE [prInfo |-> FALSE,
          manualCmd |-> <<"git", SP, "push", SP, "origin", SP, branch>>]

\* commitAndPush, lines 351-377, with pushChanges, lines 122-137:
\* commitAndPush(options.pushToRemote) declares pushToRemote = true, so an
\* option that was not supplied pushes.  Nothing in the try block throws, so
\* commitAndPush closes its readline interface (line 376) and returns true.
Push ==
  /\ pc = "push"
  /\ IF DefaultTrue(opts.pushToRemote)
       THEN \E netOk \in BOOLEAN :
              LET ok == netOk /\ PushCanSucceed(wf.branchName, repo)
                  rep == PushReport(ok, wf.branchName)
              IN /\ gitLog' = Append(gitLog,
                       Ran(PushArgs(wf.branchName, "origin", FALSE),
                           IF ok THEN 0 ELSE 1))
                 /\ repo' = [repo EXCEPT
                      !.pushed = ok /\ repo.newCommits > 0
                                    /\ repo.commitBranch = wf.branchName]
                 /\ wf' = [wf EXCEPT !.pushCalls = @ + 1,
                                     !.pushOk = ok,
                                     !.prInfo = rep.prInfo,
                                     !.manualCmd = rep.manualCmd,
                                     !.rl = "closed",
                                     !.returned = "true"]
                 /\ console' = console \cup
                      {IF ok THEN "pull request information" ELSE "push failed"}
       ELSE /\ wf' = [wf EXCEPT !.rl = "closed", !.returned = "true"]
            /\ UNCHANGED <<gitLog, repo, console>>
  /\ pc' = "report"
  /\ UNCHANGED <<opts, hasKey, dirExists, acquired, info, idx, genCalls,
                 planState, plan, disk, prompts, approved, result, rm>>

\* run(), lines 105-124: report what commitAndPush returned.
Report ==
  /\ pc = "report"
  /\ IF wf.returned = "true"
       THEN /\ console' = console \cup
                 {"success",
                  IF Truthy(opts.pushToRemote) THEN "committed and pushed"
                  ELSE "committed locally"}
            /\ result' = "true"
       ELSE /\ console' = console \cup {"commit failed"}
            /\ result' = "false"
  /\ pc' = "finally"
  /\ UNCHANGED <<opts, hasKey, dirExists, acquired, info, idx, genCalls,
                 planState, plan, disk, prompts, approved, repo, gitLog, wf, rm>>

\* A finally block that removes cloneDir without looking at keepClone.
ShouldCleanupAlways(o, exists) == exists

\* run(), line 142: whether the finally block removes cloneDir.
ShouldCleanup(o, exists) == ~o.keepClone /\ exists

\* run(), lines 138-150: the finally block closes the readline interface of
\* IntegrateAndCommit, then removes the clone.  fs.rmSync can throw; that is
\* caught and reported.
Finally ==
  /\ pc = "finally"
  /\ wf' = [wf EXCEPT !.runRl = "closed"]
  /\ IF ShouldCleanup(opts, dirExists)
       THEN \E ok \in BOOLEAN :
              IF ok
                THEN /\ dirExists' = FALSE
                     /\ disk' = NoFiles
                     /\ rm' = "ok"
                     /\ console' = console \cup {"cleaned up"}
                ELSE /\ rm' = "failed"
                     /\ console' = console \cup {"could not clean up"}
                     /\ UNCHANGED <<dirExists, disk>>
       ELSE UNCHANGED <<dirExists, disk, rm, console>>
  /\ pc' = "done"
  /\ UNCHANGED <<opts, hasKey, acquired, info, idx, genCalls, planState, plan,
                 prompts, approved, repo, gitLog, result>>

Next ==
  \/ GetKey
  \/ Clone
  \/ Analyze
  \/ BuildStep
  \/ BuildFinish
  \/ Save
  \/ StartWorkflow
  \/ AutoApprove
  \/ Prompt
  \/ EnsureBranch
  \/ Stage
  \/ Commit
  \/ Push
  \/ Report
  \/ Finally

Spec == Init /\ [][Next]_vars

\* ------------------------------- CodebaseAPIIntegrator.analyzeAndIntegrate
\* testIntegrator.ts, lines 162-166: without a key the caller returns.
AiGetKey ==
  /\ pc = "t_start"
  /\ IF hasKey
       THEN /\ pc' = "ai_validate"
            /\ UNCHANGED console
       ELSE /\ pc' = "t_done"
            /\ console' = console \cup {"key required"}
  /\ UNCHANGED <<opts, hasKey, dirExists, acquired, info, idx, genCalls,
                 planState, plan, disk, prompts, approved, repo, gitLog, wf,
                 result, rm>>

\* analyzeAndIntegrate, lines 502-506: a requested name whose lower case is
\* no key of the catalog makes it throw before anything else is done.
AiValidate ==
  /\ pc = "ai_validate"
  /\ IF \E j \in 1..Len(opts.apis) : ~Supported(ToLowerCase(opts.apis[j]))
       THEN /\ console' = console \cup {"unsupported apis"}
            /\ result' = "threw"
            /\ pc' = "t_done"
       ELSE /\ pc' = "ai_clone"
            /\ UNCHANGED <<console, result>>
  /\ UNCHANGED <<opts, hasKey, dirExists, acquired, info, idx, genCalls,
                 planState, plan, disk, prompts, approved, repo, gitLog, wf, rm>>

\* cloneRepository, lines 481-496: mkdtemp, then git clone into the new
\* directory; when the clone fails the directory is removed and the error
\* rethrown.
AiClone ==
  /\ pc = "ai_clone"
  /\ \E ok \in BOOLEAN :
       IF ok
         THEN /\ dirExists' = TRUE
              /\ acquired' = TRUE
              /\ pc' = "ai_analyze"
              /\ UNCHANGED <<console, result>>
         ELSE /\ dirExists' = FALSE
              /\ console' = console \cup {"clone failed"}
              /\ result' = "threw"
              /\ pc' = "t_done"
              /\ UNCHANGED acquired
  /\ UNCHANGED <<opts, hasKey, info, idx, genCalls, planState, plan, disk,
                 prompts, approved, repo, gitLog, wf, rm>>

\* An exception inside the try block of analyzeAndIntegrate: no plan is
\* returned; the finally block follows.
AiThrows(tag) ==
  /\ console' = console \cup {tag}
  /\ planState' = "none"
  /\ pc' = "ai_finally"

\* analyzeAndIntegrate, lines 515-540: analyze, then start an empty plan.
AiAnalyze ==
  /\ pc = "ai_analyze"
  /\ \/ /\ \E ci \in Infos : info' = ci
        /\ planState' = "building"
        /\ idx' = 1
        /\ pc' = "ai_build"
        /\ UNCHANGED console
     \/ /\ AiThrows("analysis failed")
        /\ UNCHANGED <<info, idx>>
  /\ UNCHANGED <<opts, hasKey, dirExists, acquired, genCalls, plan, disk,
                 prompts, approved, repo, gitLog, wf, result, rm>>

\* Lines 539-540: isTypeScript and fileExt of analyzeAndIntegrate.
AiIsTypeScript(ci) == ci.hasTypeScript \/ ci.language = "typescript"

AiFileExt(ci) == IF AiIsTypeScript(ci) THEN "ts" ELSE "js"

\* One iteration of the for loop over apiNames, lines 545-578.
AiBuildStep ==
  /\ pc = "ai_build"
  /\ idx <= Len(opts.apis)
  /\ LET apiKey == ToLowerCase(opts.apis[idx])
         cfg == SUPPORTED_APIS(apiKey)
     IN /\ genCalls' = Append(genCalls, <<"code", apiKey>>)
        /\ \/ /\ plan' = [plan EXCEPT
                   !.changes = Append(@,
                      [path |-> IntegrationPath(apiKey, AiFileExt(info)),
                       updated |-> CollaboratorText(<<"code", apiKey>>,
                                                    Len(genCalls) + 1),
                       description |-> <<cfg.name, "integration module">>]),
                   !.npmDependencies = @ \o cfg.npmDependencies,
                   !.envPlaceholders = ObjectAssign(@, cfg.envVars),
                   !.setupInstructions =
                      IF cfg.setupCode
                        THEN Append(@, <<cfg.name, ":", SP, "<setupCode>">>)
                        ELSE @]
              /\ idx' = idx + 1
              /\ UNCHANGED <<pc, console, planState>>
           \/ /\ AiThrows("generation failed")
              /\ UNCHANGED <<idx, plan>>
  /\ UNCHANGED <<opts, hasKey, dirExists, acquired, info, disk, prompts,
                 approved, repo, gitLog, wf, result, rm>>

\* The notes analyzeAndIntegrate appends, lines 609-617.
AiNotes(apis, ci) ==
  << <<"Generated integrations for: ">>
       \o Join([j \in 1..Len(apis) |-> W(apis[j])], <<", ">>),
     <<"Target language: ", ci.language>> >>
    \o (IF ci.framework # "none"
          THEN << <<"Framework detected: ", ci.framework>> >> ELSE <<>>)
    \o (IF ci.isWebApp
          THEN << <<"Web application detected - generated browser-compatible code where applicable">> >>
          ELSE <<>>)
    \o << <<"Remember to set all environment variables before running">> >>

\* The rest of the try block, lines 580-619: usage example, index file,
\* deduplicated dependencies, notes, `return plan`.
AiBuildFinish ==
  /\ pc = "ai_build"
  /\ idx > Len(opts.apis)
  /\ IF UsageLookupThrows(opts.apis)
       THEN /\ AiThrows("type error")
            /\ UNCHANGED <<genCalls, plan>>
       ELSE /\ genCalls' = Append(genCalls, <<"usage">>)
            /\ \/ /\ plan' = [plan EXCEPT
                       !.changes = @ \o
                          << [path |-> DemoPath(AiFileExt(info)),
                              updated |-> CollaboratorText(<<"usage">>,
                                                           Len(genCalls) + 1),
                              description |-> <<"Integration usage example">>],
                             [path |-> IndexPath(AiFileExt(info)),
                              updated |-> GenerateIndexFile(opts.apis,
                                            AiIsTypeScript(info),
                                            "/** API Integration Exports */"),
                              description |-> <<"Integration exports">>] >>,
                       !.npmDependencies = Dedup(@),
                       !.notes = @ \o AiNotes(opts.apis, info)]
                  /\ planState' = "built"
                  /\ pc' = "ai_finally"
                  /\ UNCHANGED console
               \/ /\ AiThrows("generation failed")
                  /\ UNCHANGED plan
  /\ UNCHANGED <<opts, hasKey, dirExists, acquired, info, idx, disk, prompts,
                 approved, repo, gitLog, wf, result, rm>>

\* The finally block, lines 621-627: remove the clone if it exists.  An
\* fs.rmSync that throws replaces the block's outcome, a returned plan
\* included.  The caller goes on to save a returned plan.
AiFinally ==
  /\ pc = "ai_finally"
  /\ IF dirExists
       THEN \E ok \in BOOLEAN :
              IF ok
                THEN /\ dirExists' = FALSE
                     /\ rm' = "ok"
                     /\ console' = console \cup {"cleaned up"}
                     /\ result' = IF planState = "built" THEN "plan" ELSE "threw"
                     /\ pc' = IF planState = "built" THEN "t_save" ELSE "t_done"
                     /\ UNCHANGED planState
                ELSE /\ rm' = "failed"
                     /\ console' = console \cup {"cleanup failed"}
                     /\ result' = "threw"
                     /\ planState' = "none"
                     /\ pc' = "t_done"
                     /\ UNCHANGED dirExists
       ELSE /\ result' = IF planState = "built" THEN "plan" ELSE "threw"
            /\ pc' = IF planState = "built" THEN "t_save" ELSE "t_done"
            /\ UNCHANGED <<dirExists, rm, console, planState>>
  /\ UNCHANGED <<opts, hasKey, acquired, info, idx, genCalls, plan, disk,
                 prompts, approved, repo, gitLog, wf>>

\* testIntegrator.ts, lines 175-176: the caller saves the returned plan; a
\* write can throw.
AiSave ==
  /\ pc = "t_save"
  /\ \/ /\ disk' = SaveIntegrationPlan(plan, disk)
        /\ console' = console \cup {"integration complete"}
     \/ /\ \E k \in 0..(Len(Writes(plan)) - 1) :
             disk' = SaveInterrupted(plan, disk, k)
        /\ console' = console \cup {"save failed"}
  /\ pc' = "t_done"
  /\ UNCHANGED <<opts, hasKey, dirExists, acquired, info, idx, genCalls,
                 planState, plan, prompts, approved, repo, gitLog, wf, result,
                 rm>>

\* A request handed to IntegrateAndCommit.run (auto-approved or not, pushing,
\* not keeping the clone) or to analyzeAndIntegrate through its caller.
InitBuilders ==
  /\ pc \in {"start", "t_start"}
  /\ opts \in [apis : SeqsUpTo(BuilderNames, MaxApis), autoApprove : BOOLEAN,
               pushToRemote : {"true"}, keepClone : {FALSE}]
  /\ (pc = "t_start" => ~opts.autoApprove)
  /\ hasKey \in BOOLEAN
  /\ dirExists = FALSE
  /\ acquired = FALSE
  /\ info = InitInfo
  /\ idx = 1
  /\ genCalls = <<>>
  /\ planState = "none"
  /\ plan = EmptyPlan
  /\ disk = NoFiles
  /\ prompts = 0
  /\ approved = "none"
  /\ repo = InitRepo
  /\ gitLog = <<>>
  /\ wf = InitWf
  /\ console = {}
  /\ result = "none"
  /\ rm = "none"

NextBuilders ==
  \/ Next
  \/ AiGetKey
  \/ AiValidate
  \/ AiClone
  \/ AiAnalyze
  \/ AiBuildStep
  \/ AiBuildFinish
  \/ AiFinally
  \/ AiSave

SpecBuilders == InitBuilders /\ [][NextBuilders]_vars

\* ---------------------------------- CodebaseAPIIntegrator.saveIntegrationPlan
\* The paths and texts of the file changes of the plans handed to the
\* persister on its own.
ChangePaths == {IntegrationPath("senso", "ts"), IndexPath("ts")}

ChangeTexts == {CollaboratorText(<<"code", "senso">>, 1),
                CollaboratorText(<<"code", "senso">>, 2)}

\* What a file left by an earlier use of the output directory holds.
StaleDocument == << <<"stale">> >>

\* The output directory before the call: missing or empty, or holding files
\* of an earlier use at paths a plan can name and at one it cannot.
OutputDirs ==
  { NoFiles,
    [f \in {IntegrationPath("senso", "ts"), <<"package_additions.json">>,
            <<".env.example">>, <<"INTEGRATION_NOTES.md">>, <<"SETUP.md">>,
            <<"README.md">>} |-> StaleDocument] }

\* IntegrationPlan values: changes that can repeat a path, and each of the
\* other collections empty or not.
Plans ==
  { [changes |-> ch, npmDependencies |-> deps, envPlaceholders |-> env,
     notes |-> notes, setupInstructions |-> setup, apis |-> <<>>,
     commitMessage |-> <<>>] :
      ch \in SeqsUpTo([path : ChangePaths, updated : ChangeTexts,
                       description : {<<"integration module">>}], MaxChanges),
      deps \in {<<>>, <<"axios">>, <<"axios", "openai">>},
      env \in {EmptyObject, SUPPORTED_APIS("senso").envVars},
      notes \in {<<>>, AiNotes(<<"senso">>, InitInfo),
                 <<W("Target language: typescript")>>},
      setup \in {<<>>, << <<"Intercom", ":", SP, "<setupCode>">> >>} }

\* saveIntegrationPlan about to be called with a plan and an output
\* directory.
InitPersist ==
  /\ pc = "p_start"
  /\ plan \in Plans
  /\ disk \in OutputDirs
  /\ planState = "built"
  /\ opts = [apis |-> <<>>, autoApprove |-> FALSE, pushToRemote |-> "false",
             keepClone |-> TRUE]
  /\ hasKey = TRUE
  /\ dirExists = TRUE
  /\ acquired = FALSE
  /\ info = InitInfo
  /\ idx = 1
  /\ genCalls = <<>>
  /\ prompts = 0
  /\ approved = "none"
  /\ repo = InitRepo
  /\ gitLog = <<>>
  /\ wf = InitWf
  /\ console = {}
  /\ result = "none"
  /\ rm = "none"

\* One call of saveIntegrationPlan(plan, outputDir), lines 684-743: it
\* returns after its last write, or a write throws.
Persist ==
  /\ pc = "p_start"
  /\ \/ /\ disk' = SaveIntegrationPlan(plan, disk)
        /\ pc' = "p_once"
     \/ /\ \E k \in 0..(Len(Writes(plan)) - 1) :
             disk' = SaveInterrupted(plan, disk, k)
        /\ pc' = "p_failed"
  /\ UNCHANGED <<opts, hasKey, dirExists, acquired, info, idx, genCalls,
                 planState, plan, prompts, approved, repo, gitLog, wf, console,
                 result, rm>>

\* A second call with the same plan and the same output directory.
PersistAgain ==
  /\ pc = "p_once"
  /\ \/ /\ disk' = SaveIntegrationPlan(plan, disk)
        /\ pc' = "p_twice"
     \/ /\ \E k \in 0..(Len(Writes(plan)) - 1) :
             disk' = SaveInterrupted(plan, disk, k)
        /\ pc' = "p_failed"
  /\ UNCHANGED <<opts, hasKey, dirExists, acquired, info, idx, genCalls,
                 planState, plan, prompts, approved, repo, gitLog, wf, console,
                 result, rm>>

NextPersist ==
  \/ Persist
  \/ PersistAgain

SpecPersist == InitPersist /\ [][NextPersist]_vars

\* ------------------------------------ GitIntegration.createIntegrationBranch
\* The explicit names given to createIntegrationBranch.
BranchNames == {"feature-x", "v1.0"}

\* A working copy on the clone's branch or on the named branch, in which the
\* name resolves to nothing, to a local branch or to a tag, and the name
\* createIntegrationBranch is about to be called with.
InitBranch ==
  /\ pc = "b_start"
  /\ \E name \in BranchNames, ref \in RefKinds :
       /\ opts = [branchName |-> name]
       /\ \E head \in {CloneBranch} \cup (IF ref = "branch" THEN {name} ELSE {}) :
            repo = [WithRef(InitRepo, name, ref) EXCEPT !.head = head]
  /\ gitLog = <<>>
  /\ wf = InitWf
  /\ result = "none"
  /\ hasKey = TRUE
  /\ dirExists = TRUE
  /\ acquired = FALSE
  /\ info = InitInfo
  /\ idx = 1
  /\ genCalls = <<>>
  /\ planState = "none"
  /\ plan = EmptyPlan
  /\ disk = NoFiles
  /\ prompts = 0
  /\ approved = "none"
  /\ console = {}
  /\ rm = "none"

\* createIntegrationBranch(opts.branchName), lines 76-94; wf.branchName takes
\* what it returned.
BranchCall ==
  /\ pc \in {"b_start", "b_called", "b_seen"}
  /\ Len(SelectSeq(gitLog, LAMBDA e : e.argv[1] = W("rev-parse")))
       < MaxEnsureCalls
  /\ \E ok \in BOOLEAN :
       LET call == CreateIntegrationBranch(repo, opts.branchName, ok)
       IN /\ gitLog' = gitLog \o call.log
          /\ repo' = call.repo
          /\ wf' = [wf EXCEPT !.branchName = call.returned]
  /\ pc' = "b_called"
  /\ UNCHANGED <<opts, hasKey, dirExists, acquired, info, idx, genCalls,
                 planState, plan, disk, prompts, approved, console, result, rm>>

\* getCurrentBranch() after a call, lines 71-74; result takes what it
\* returned.
BranchShowCurrent ==
  /\ pc = "b_called"
  /\ gitLog' = Append(gitLog, Ran(<<W("branch"), W("--show-current")>>, 0))
  /\ result' = GetCurrentBranch(repo)
  /\ pc' = "b_seen"
  /\ UNCHANGED <<opts, hasKey, dirExists, acquired, info, idx, genCalls,
                 planState, plan, disk, prompts, approved, repo, wf, console, rm>>

NextBranch ==
  \/ BranchCall
  \/ BranchShowCurrent

SpecBranch == InitBranch /\ [][NextBranch]_vars

\* ------------------------------------------------- GitIntegration.addFiles
MaxStageFiles == 2

\* The paths addFiles is given: two plain names and one with a blank in it.
StagePaths == {W("a.ts"), W("b.ts"), <<"my", SP, "file.ts">>}

\* `git add <words>` in a working copy holding files: it adds at every word,
\* or at none when one of them names no file (fatal: pathspec did not match)
\* or when git cannot write the index.
GitAdd(argv, files, ok) ==
  IF ok /\ \A k \in 2..Len(argv) : argv[k] \in files
    THEN {argv[k] : k \in 2..Len(argv)}
    ELSE {}

\* addFiles(paths), lines 96-106, in working copy r holding files: for each
\* path in turn, `git add <path>` and "Added" when the path exists, a warning
\* when it does not.  The result of git add is not looked at; ok[j] tells
\* whether git can write the index at the j-th path.
AddFiles(r, paths, files, ok) ==
  LET present == SelectSeq([j \in 1..Len(paths) |-> j],
                           LAMBDA j : paths[j] \in files)
      added(j) == GitAdd(ShellSplit(CommandLine(<<W("add"), paths[j]>>)),
                         files, ok[j])
  IN [log |-> [k \in 1..Len(present) |->
                 Ran(<<W("add"), paths[present[k]]>>,
                     IF added(present[k]) # {} THEN 0 ELSE 1)],
      repo |-> [r EXCEPT
                  !.staged = @ \cup UNION {added(present[k]) :
                                             k \in 1..Len(present)}],
      printed |-> [j \in 1..Len(paths) |->
                     IF paths[j] \in files
                       THEN <<"Added: ", paths[j]>>
                       ELSE <<"Warning: File not found: ", paths[j]>>]]

\* A working copy holding some of the paths, with nothing staged, and the list
\* addFiles is about to be called with.
InitStage ==
  /\ pc = "s_start"
  /\ opts \in [files : SeqsUpTo(StagePaths, MaxStageFiles)]
  /\ \E held \in SUBSET StagePaths : disk = [f \in held |-> <<>>]
  /\ repo = InitRepo
  /\ gitLog = <<>>
  /\ wf = [printed |-> <<>>]
  /\ result = "none"
  /\ hasKey = TRUE
  /\ dirExists = TRUE
  /\ acquired = FALSE
  /\ info = InitInfo
  /\ idx = 1
  /\ genCalls = <<>>
  /\ planState = "none"
  /\ plan = EmptyPlan
  /\ prompts = 0
  /\ approved = "none"
  /\ console = {}
  /\ rm = "none"

\* addFiles(opts.files), lines 96-106; result tells that it returned.
StageCall ==
  /\ pc = "s_start"
  /\ \E ok \in [1..Len(opts.files) -> BOOLEAN] :
       LET call == AddFiles(repo, opts.files, DOMAIN disk, ok)
       IN /\ gitLog' = gitLog \o call.log
          /\ repo' = call.repo
          /\ wf' = [wf EXCEPT !.printed = @ \o call.printed]
  /\ result' = "returned"
  /\ pc' = "s_done"
  /\ UNCHANGED <<opts, hasKey, dirExists, acquired, info, idx, genCalls,
                 planState, plan, disk, prompts, approved, console, rm>>

NextStage == StageCall

SpecStage == InitStage /\ [][NextStage]_vars

\* ------------------------------------ InteractiveGitWorkflow.getUserApproval
MaxWalk == 7

\* String.prototype.toLowerCase on what the operator typed.
LowerText(t) == [j \in 1..Len(t) |-> IF t[j] = "Q" THEN "q" ELSE ToLowerCase(t[j])]

\* What the operator can type at 'Press Enter to continue or 'q' to stop'.
ContinueInputs == {<<>>, W("q"), W("Q"), <<SP, "q">>, W("x")}

\* A switch that takes an empty answer as the first choice.
CaseOfEmptyApproves(choice) ==
  IF choice = <<>> THEN "1"
  ELSE IF choice \in {W("1"), W("2"), W("3"), W("4")} THEN choice[1]
  ELSE "default"

\* The case of the switch of lines 257-276 that a trimmed answer selects.
CaseOf(choice) ==
  IF choice \in {W("1"), W("2"), W("3"), W("4")} THEN choice[1] ELSE "default"

\* A walkthrough that asks after every second file.
NextBatchOfTwo(shown, n) == IF shown + 2 - (shown % 2) < n THEN shown + 2 - (shown % 2) ELSE n

\* showDetailedChanges, lines 290-299, from file number shown + 1 on: how many
\* files have been printed when the loop next asks to continue, or ends.
NextBatch(shown, n) == IF shown + 3 - (shown % 3) < n THEN shown + 3 - (shown % 3) ELSE n

\* A workflow object for a plan of up to MaxWalk changes, before
\* getUserApproval is called.
InitApproval ==
  /\ pc = "a_prompt"
  /\ \E n \in 0..MaxWalk, apis \in {<<>>, <<"senso">>} :
       plan = [EmptyPlan EXCEPT
                 !.changes = [j \in 1..n |->
                                [path |-> <<"file", j>>, updated |-> <<>>,
                                 description |-> <<>>]],
                 !.apis = apis]
  /\ wf = [answer |-> <<>>, input |-> <<>>, shown |-> 0, asked |-> 0]
  /\ prompts = 0
  /\ result = "none"
  /\ console = {}
  /\ repo = InitRepo
  /\ gitLog = <<>>
  /\ opts = [autoApprove |-> FALSE]
  /\ hasKey = TRUE
  /\ dirExists = TRUE
  /\ acquired = FALSE
  /\ info = InitInfo
  /\ idx = 1
  /\ genCalls = <<>>
  /\ planState = "none"
  /\ disk = NoFiles
  /\ approved = "none"
  /\ rm = "none"

\* getUserApproval, lines 244-277: the menu, one answer, and the switch.
\* Choice 2 starts showDetailedChanges, lines 287-299, up to its first
\* question or its end (asked counts the questions of the walkthrough);
\* choice 3 goes on to getCustomCommitMessage's question;
\* result takes what getUserApproval returns.
ApprovalPrompt ==
  /\ pc = "a_prompt"
  /\ \E answer \in Answers :
       LET case == CaseOf(Trim(answer))
           n == Len(plan.changes)
       IN /\ wf' = [wf EXCEPT !.answer = answer,
                              !.shown = IF case = "2" THEN NextBatch(0, n) ELSE @,
                              !.asked = IF case = "2"
                                          THEN IF NextBatch(0, n) < n THEN 1 ELSE 0
                                          ELSE @]
          /\ CASE case = "1" ->
                    /\ result' = "true"
                    /\ pc' = "a_done"
                    /\ UNCHANGED <<prompts, console>>
               [] case = "2" ->
                    /\ prompts < MaxReprompts
                    /\ prompts' = prompts + 1
                    /\ console' = console \cup {"detailed changes"}
                    /\ pc' = IF NextBatch(0, n) < n THEN "a_detail" ELSE "a_prompt"
                    /\ UNCHANGED result
               [] case = "3" ->
                    /\ pc' = "a_custom"
                    /\ UNCHANGED <<prompts, console, result>>
               [] case = "4" ->
                    /\ console' = console \cup {"commit cancelled"}
                    /\ result' = "false"
                    /\ pc' = "a_done"
                    /\ UNCHANGED prompts
               [] OTHER ->
                    /\ prompts < MaxReprompts
                    /\ prompts' = prompts + 1
                    /\ console' = console \cup {"invalid choice"}
                    /\ pc' = "a_prompt"
                    /\ UNCHANGED result
  /\ UNCHANGED <<opts, hasKey, dirExists, acquired, info, idx, genCalls,
                 planState, plan, disk, approved, repo, gitLog, rm>>

\* showDetailedChanges, lines 299-304: the answer to 'Press Enter to continue
\* or 'q' to stop', and the files printed up to the next question or the end;
\* getUserApproval is then called again (line 262).
ApprovalContinue ==
  /\ pc = "a_detail"
  /\ \E cont \in ContinueInputs :
       LET n == Len(plan.changes) IN
       /\ wf' = [wf EXCEPT !.input = cont,
                           !.shown = IF LowerText(cont) = W("q") THEN @
                                     ELSE NextBatch(@, n),
                           !.asked = IF LowerText(cont) # W("q")
                                          /\ NextBatch(wf.shown, n) < n
                                       THEN @ + 1 ELSE @]
       /\ pc' = IF LowerText(cont) # W("q") /\ NextBatch(wf.shown, n) < n
                  THEN "a_detail" ELSE "a_prompt"
  /\ UNCHANGED <<opts, hasKey, dirExists, acquired, info, idx, genCalls,
                 planState, plan, disk, prompts, approved, repo, gitLog,
                 console, result, rm>>

\* getUserApproval, lines 264-269, with getCustomCommitMessage, lines 308-312:
\* the message typed, or the generated default when it is blank, becomes the
\* plan's commitMessage.
ApprovalCustom ==
  /\ pc = "a_custom"
  /\ \E input \in CustomInputs :
       LET customMessage == GetCustomCommitMessage(input, plan) IN
       /\ wf' = [wf EXCEPT !.input = input]
       /\ IF customMessage # <<>>
            THEN /\ plan' = [plan EXCEPT !.commitMessage = customMessage]
                 /\ result' = "true"
            ELSE /\ result' = "false"
                 /\ UNCHANGED plan
  /\ pc' = "a_done"
  /\ UNCHANGED <<opts, hasKey, dirExists, acquired, info, idx, genCalls,
                 planState, disk, prompts, approved, repo, gitLog, console, rm>>

NextApproval ==
  \/ ApprovalPrompt
  \/ ApprovalContinue
  \/ ApprovalCustom

SpecApproval == InitApproval /\ [][NextApproval]_vars

\* ------------------------------------ IntegrateAndCommit.run, side by side
MaxRuns == 2

\* The runs that share a current directory.
Runs == 1..MaxRuns

\* When a run evaluates `new Date()`, in milliseconds.
StartTimes == {0, 400, 1200}

\* The repository URLs given to the runs, as their parts between slashes.
RepoUrls == { <<"https:", "", "github.com", "o", "app.git">>,
              <<"https:", "", "github.com", "o", "app">> }

\* run(), line 51: repoUrl.split('/').pop()?.replace('.git', '') || 'repo'.
RepoName(url) ==
  LET last == url[Len(url)] IN
  IF last = "app.git" THEN "app" ELSE IF last = "" THEN "repo" ELSE last

\* run(), line 52: toISOString().replace(/[:.]/g, '-').slice(0, 19) keeps the
\* time down to the second.
Timestamp(ms) == ms \div 1000

\* run(), line 53: the clone directory's name.
CloneDir(o) == <<RepoName(o.repoUrl), "_integration_", Timestamp(o.time)>>

\* run(), line 142, in a run that did or did not clone cloneDir: the test
\* looks only at keepClone and at whether the directory exists.
ShouldCleanupDir(o, exists, own) == ShouldCleanup(o, exists)

\* Runs that have their keys and are about to derive their clone directory;
\* no clone directory exists yet.  disk maps each clone directory that exists
\* to the run that cloned it, and wf collects <<run, owner>> for each
\* directory of owner that run deleted.
InitRuns ==
  /\ pc = [r \in Runs |-> "r_clone"]
  /\ opts \in [Runs -> [repoUrl : RepoUrls, time : StartTimes,
                        keepClone : BOOLEAN]]
  /\ disk = <<>>
  /\ acquired = [r \in Runs |-> FALSE]
  /\ rm = [r \in Runs |-> "none"]
  /\ result = [r \in Runs |-> "none"]
  /\ wf = {}
  /\ hasKey = TRUE
  /\ dirExists = FALSE
  /\ info = InitInfo
  /\ idx = 1
  /\ genCalls = <<>>
  /\ planState = "none"
  /\ plan = EmptyPlan
  /\ prompts = 0
  /\ approved = "none"
  /\ repo = InitRepo
  /\ gitLog = <<>>
  /\ console = {}

\* run(), lines 55-58 and 130-136: git clone into cloneDir, which fails when
\* the directory is there, and can fail otherwise; the failure is caught and
\* run is about to return false.
RunClone(r) ==
  /\ pc[r] = "r_clone"
  /\ \E ok \in BOOLEAN :
       IF ok /\ CloneDir(opts[r]) \notin DOMAIN disk
         THEN /\ disk' = [d \in DOMAIN disk \cup {CloneDir(opts[r])} |->
                            IF d = CloneDir(opts[r]) THEN r ELSE disk[d]]
              /\ acquired' = [acquired EXCEPT ![r] = TRUE]
              /\ pc' = [pc EXCEPT ![r] = "r_work"]
              /\ UNCHANGED result
         ELSE /\ result' = [result EXCEPT ![r] = "false"]
              /\ pc' = [pc EXCEPT ![r] = "r_finally"]
              /\ UNCHANGED <<disk, acquired>>
  /\ UNCHANGED <<opts, hasKey, dirExists, info, idx, genCalls, planState, plan,
                 prompts, approved, repo, gitLog, wf, console, rm>>

\* run(), lines 60-128: the rest of the try block, which ends with true or
\* with false.
RunWork(r) ==
  /\ pc[r] = "r_work"
  /\ \E res \in {"true", "false"} : result' = [result EXCEPT ![r] = res]
  /\ pc' = [pc EXCEPT ![r] = "r_finally"]
  /\ UNCHANGED <<opts, hasKey, dirExists, acquired, info, idx, genCalls,
                 planState, plan, disk, prompts, approved, repo, gitLog, wf,
                 console, rm>>

\* run(), lines 138-150: the finally block; fs.rmSync can throw, which is
\* caught.
RunFinally(r) ==
  /\ pc[r] = "r_finally"
  /\ LET dir == CloneDir(opts[r]) IN
     IF ShouldCleanupDir(opts[r], dir \in DOMAIN disk, acquired[r])
       THEN \E ok \in BOOLEAN :
              IF ok
                THEN /\ disk' = [d \in DOMAIN disk \ {dir} |-> disk[d]]
                     /\ wf' = wf \cup {<<r, disk[dir]>>}
                     /\ rm' = [rm EXCEPT ![r] = "ok"]
                ELSE /\ rm' = [rm EXCEPT ![r] = "failed"]
                     /\ UNCHANGED <<disk, wf>>
       ELSE UNCHANGED <<disk, wf, rm>>
  /\ pc' = [pc EXCEPT ![r] = "r_done"]
  /\ UNCHANGED <<opts, hasKey, dirExists, acquired, info, idx, genCalls,
                 planState, plan, prompts, approved, repo, gitLog, console,
                 result>>

NextRuns ==
  \E r \in Runs :
    \/ RunClone(r)
    \/ RunWork(r)
    \/ RunFinally(r)

SpecRuns == InitRuns /\ [][NextRuns]_vars

\* ---------------------------------------------------------- CodebaseAnalyzer
MaxAnalyses == 2

\* The entries a working copy can hold, in the order the walk of
\* detectLanguage meets them, with the language of their extension ("" when
\* the extension is not in the table of lines 217-228) and whether the walk
\* reaches them (it enters neither a directory whose name starts with a dot
\* nor node_modules, lines 237-238).
TreeEntries ==
  << [path |-> ".cache/gen.go", language |-> "go", walked |-> FALSE],
     [path |-> "app.py", language |-> "python", walked |-> TRUE],
     [path |-> "index.html", language |-> "", walked |-> TRUE],
     [path |-> "index.js", language |-> "javascript", walked |-> TRUE],
     [path |-> "index.ts", language |-> "typescript", walked |-> TRUE],
     [path |-> "lib.rb", language |-> "ruby", walked |-> TRUE],
     [path |-> "node_modules/dep.ts", language |-> "typescript", walked |-> FALSE],
     [path |-> "src/index.ts", language |-> "typescript", walked |-> TRUE],
     [path |-> "tool.py", language |-> "python", walked |-> TRUE] >>

TreePaths == {TreeEntries[j].path : j \in 1..Len(TreeEntries)}

\* What package.json can be: absent, not valid JSON, or an object with these
\* packages among its dependencies and devDependencies.
PackageJsons ==
  {[exists |-> FALSE, valid |-> FALSE, deps |-> {}],
   [exists |-> TRUE, valid |-> FALSE, deps |-> {}]}
  \cup {[exists |-> TRUE, valid |-> TRUE, deps |-> d] :
          d \in {{}, {"react"}, {"express", "react"}, {"@angular/core"}}}

\* A new CodebaseAnalyzer, lines 188-198.
NewAnalyzer ==
  [mainLanguage |-> "null", framework |-> "null", entryPoints |-> <<>>,
   isWebApp |-> FALSE, hasTypeScript |-> FALSE]

\* fileCounts after walkDir, lines 230-247: its keys in insertion order, and
\* the count of a key.
FileCount(language, tree) ==
  Cardinality({j \in 1..Len(TreeEntries) :
                 /\ TreeEntries[j].path \in tree.files
                 /\ TreeEntries[j].walked
                 /\ TreeEntries[j].language = language})

CountedLanguages(tree) ==
  LET met == SelectSeq(TreeEntries,
                       LAMBDA e : e.path \in tree.files /\ e.walked
                                  /\ e.language # "")
  IN Dedup([j \in 1..Len(met) |-> met[j].language])

RECURSIVE ReduceMax(_, _, _)
\* keys.reduce((a, b) => fileCounts[a] > fileCounts[b] ? a : b), lines 254-256.
ReduceMax(a, keys, tree) ==
  IF keys = <<>> THEN a
  ELSE ReduceMax(IF FileCount(a, tree) > FileCount(keys[1], tree)
                   THEN a ELSE keys[1],
                 Tail(keys), tree)

\* detectLanguage, lines 216-261.
DetectLanguage(a, tree) ==
  LET keys == CountedLanguages(tree) IN
  IF FileCount("typescript", tree) > 0
    THEN [a EXCEPT !.hasTypeScript = TRUE, !.mainLanguage = "typescript"]
  ELSE IF FileCount("javascript", tree) > 0
    THEN [a EXCEPT !.mainLanguage = "javascript"]
  ELSE IF Len(keys) > 0
    THEN [a EXCEPT !.mainLanguage = ReduceMax(keys[1], Tail(keys), tree)]
  ELSE a

\* commonEntryPoints, lines 264-268.
CommonEntryPoints(language) ==
  CASE language = "javascript" ->
         <<"index.js", "app.js", "server.js", "main.js", "src/index.js">>
    [] language = "typescript" ->
         <<"index.ts", "app.ts", "server.ts", "main.ts", "src/index.ts">>
    [] language = "python" ->
         <<"app.py", "main.py", "run.py", "server.py", "__main__.py">>
    [] OTHER -> <<>>

\* findEntryPoints, lines 263-278: each common entry point that exists is
\* pushed onto this.entryPoints.
FindEntryPoints(a, tree) ==
  [a EXCEPT !.entryPoints =
     @ \o SelectSeq(CommonEntryPoints(a.mainLanguage),
                    LAMBDA e : e \in tree.files)]

\* The table of lines 291-302, in its order.
Frameworks ==
  << <<"next", "Next.js">>, <<"react", "React">>, <<"vue", "Vue">>,
     <<"angular", "Angular">>, <<"express", "Express">>,
     <<"fastify", "Fastify">>, <<"koa", "Koa">>, <<"nestjs", "NestJS">>,
     <<"svelte", "Svelte">>, <<"nuxt", "Nuxt">> >>

\* `@${pkg}/core`
CorePackage(pkg) == IF pkg = "angular" THEN "@angular/core" ELSE "@" \o pkg \o "/core"

\* detectFramework, lines 280-310: JSON.parse throws on a package.json that is
\* not valid JSON; otherwise the first framework of the table that is among
\* the dependencies.
DetectFramework(a, tree) ==
  LET hits == SelectSeq(Frameworks,
                        LAMBDA f : f[1] \in tree.packageJson.deps
                                   \/ CorePackage(f[1]) \in tree.packageJson.deps)
  IN IF ~tree.packageJson.exists THEN [threw |-> FALSE, analyzer |-> a]
     ELSE IF ~tree.packageJson.valid THEN [threw |-> TRUE, analyzer |-> a]
     ELSE [threw |-> FALSE,
           analyzer |-> IF Len(hits) > 0
                          THEN [a EXCEPT !.framework = hits[1][2]] ELSE a]

\* checkWebApp, lines 312-335; of its indicators the working copy can hold
\* index.html.
CheckWebApp(a, tree) ==
  [a EXCEPT !.isWebApp =
     \/ @
     \/ "index.html" \in tree.files
     \/ a.framework \in {"React", "Vue", "Angular", "Next.js", "Nuxt", "Svelte"}]

\* analyze(), lines 200-214, on analyzer a: the analyzer afterwards, and the
\* CodebaseInfo returned unless detectFramework threw.
AnalyzerRun(a, tree) ==
  LET found == FindEntryPoints(DetectLanguage(a, tree), tree)
      detected == DetectFramework(found, tree)
      checked == CheckWebApp(detected.analyzer, tree)
  IN IF detected.threw
       THEN [threw |-> TRUE, analyzer |-> found, info |-> NewAnalyzer]
       ELSE [threw |-> FALSE, analyzer |-> checked,
             info |-> [mainLanguage |-> checked.mainLanguage,
                       framework |-> checked.framework,
                       entryPoints |-> checked.entryPoints,
                       isWebApp |-> checked.isWebApp,
                       hasTypeScript |-> checked.hasTypeScript]]

\* A working copy and a new CodebaseAnalyzer for it; disk is the working
\* copy, info the analyzer's fields, wf the outcomes of the calls of
\* analyze() so far.
InitAnalyzer ==
  /\ pc = "z_ready"
  /\ disk \in [files : SUBSET TreePaths, packageJson : PackageJsons]
  /\ info = NewAnalyzer
  /\ wf = <<>>
  /\ result = "none"
  /\ opts = [autoApprove |-> FALSE]
  /\ hasKey = TRUE
  /\ dirExists = TRUE
  /\ acquired = TRUE
  /\ idx = 1
  /\ genCalls = <<>>
  /\ planState = "none"
  /\ plan = EmptyPlan
  /\ prompts = 0
  /\ approved = "none"
  /\ repo = InitRepo
  /\ gitLog = <<>>
  /\ console = {}
  /\ rm = "none"

\* analyze() on the analyzer at hand, lines 200-214.
AnalyzeAgain ==
  /\ pc = "z_ready"
  /\ Len(wf) < MaxAnalyses
  /\ LET run == AnalyzerRun(info, disk) IN
     /\ info' = run.analyzer
     /\ wf' = Append(wf, [threw |-> run.threw, info |-> run.info, fresh |-> wf = <<>>])
     /\ result' = IF run.threw THEN "threw" ELSE "info"
  /\ UNCHANGED <<pc, opts, hasKey, dirExists, acquired, idx, genCalls,
                 planState, plan, disk, prompts, approved, repo, gitLog,
                 console, rm>>

\* new CodebaseAnalyzer(cloneDir) and analyze() on it, as
\* analyzeAndIntegrateWithoutCleanup does, integrateAndCommit.ts lines 184-185.
AnalyzeNew ==
  /\ pc = "z_ready"
  /\ Len(wf) < MaxAnalyses
  /\ LET run == AnalyzerRun(NewAnalyzer, disk) IN
     /\ info' = run.analyzer
     /\ wf' = Append(wf, [threw |-> run.threw, info |-> run.info, fresh |-> TRUE])
     /\ result' = IF run.threw THEN "threw" ELSE "info"
  /\ UNCHANGED <<pc, opts, hasKey, dirExists, acquired, idx, genCalls,
                 planState, plan, disk, prompts, approved, repo, gitLog,
                 console, rm>>

NextAnalyzer ==
  \/ AnalyzeAgain
  \/ AnalyzeNew

SpecAnalyzer == InitAnalyzer /\ [][NextAnalyzer]_vars

\* ------------------------------------ GitIntegration.getUncommittedChanges
MaxEdits == 3

\* The paths of the working copy, in the order git lists them; a.ts is in the
\* clone's HEAD, b.ts and c.ts are not.
StatusFiles == <<"a.ts", "b.ts", "c.ts">>

\* No content: the path is not there.
Absent == 0 - 1

\* The working copy as cloned: per path its content in HEAD, in the index and
\* in the working tree.
ClonedTree ==
  [f \in Range(StatusFiles) |->
     IF f = "a.ts" THEN [head |-> 0, index |-> 0, tree |-> 0]
     ELSE [head |-> Absent, index |-> Absent, tree |-> Absent]]

\* stdout.split('\n').filter(f => f), lines 146, 150 and 154, of the listing
\* git prints, one path a line.
PathList(listed) == SelectSeq(StatusFiles, LAMBDA f : f \in listed)

\* getUncommittedChanges, lines 139-157: `git diff --cached --name-only`
\* lists the paths whose index entry differs from HEAD, `git diff
\* --name-only` the paths in the index whose file differs from the index
\* entry, `git ls-files --others --exclude-standard` the files not in the
\* index.
GetUncommittedChanges(d) ==
  [staged |-> PathList({f \in DOMAIN d : d[f].index # d[f].head}),
   modified |-> PathList({f \in DOMAIN d : /\ d[f].index # Absent
                                           /\ d[f].tree # d[f].index}),
   untracked |-> PathList({f \in DOMAIN d : /\ d[f].index = Absent
                                            /\ d[f].tree # Absent})]

\* A cloned working copy; disk is its content, prompts counts the writes, wf
\* is what getUncommittedChanges last returned.
InitStatus ==
  /\ pc = "q_ready"
  /\ disk = ClonedTree
  /\ prompts = 0
  /\ wf = [staged |-> <<>>, modified |-> <<>>, untracked |-> <<>>]
  /\ result = "none"
  /\ opts = [autoApprove |-> FALSE]
  /\ hasKey = TRUE
  /\ dirExists = TRUE
  /\ acquired = TRUE
  /\ info = InitInfo
  /\ idx = 1
  /\ genCalls = <<>>
  /\ planState = "none"
  /\ plan = EmptyPlan
  /\ approved = "none"
  /\ repo = InitRepo
  /\ gitLog = <<>>
  /\ console = {}
  /\ rm = "none"

\* A file of the working copy is written with new content (saveIntegrationPlan,
\* part_000 line 699, or an editor).
StatusWrite(f) ==
  /\ prompts < MaxEdits
  /\ prompts' = prompts + 1
  /\ disk' = [disk EXCEPT ![f].tree = prompts + 1]
  /\ pc' = "q_ready"
  /\ UNCHANGED <<opts, hasKey, dirExists, acquired, info, idx, genCalls,
                 planState, plan, approved, repo, gitLog, wf, console, result,
                 rm>>

\* addFiles([f]), lines 96-106, for a file that exists: git add f.
StatusAdd(f) ==
  /\ disk[f].tree # Absent
  /\ disk[f].index # disk[f].tree
  /\ disk' = [disk EXCEPT ![f].index = disk[f].tree]
  /\ gitLog' = Append(gitLog, Ran(<<W("add"), W(f)>>, 0))
  /\ pc' = "q_ready"
  /\ UNCHANGED <<opts, hasKey, dirExists, acquired, info, idx, genCalls,
                 planState, plan, prompts, approved, repo, wf, console, result,
                 rm>>

\* getUncommittedChanges(), lines 139-157.
StatusQuery ==
  /\ pc = "q_ready"
  /\ wf' = GetUncommittedChanges(disk)
  /\ result' = "returned"
  /\ pc' = "q_seen"
  /\ UNCHANGED <<opts, hasKey, dirExists, acquired, info, idx, genCalls,
                 planState, plan, disk, prompts, approved, repo, gitLog,
                 console, rm>>

NextStatus ==
  \/ \E f \in Range(StatusFiles) : StatusWrite(f)
  \/ \E f \in Range(StatusFiles) : StatusAdd(f)
  \/ StatusQuery

SpecStatus == InitStatus /\ [][NextStatus]_vars

\* ------------------------------------- GitIntegration.createPullRequestInfo
MaxPrCalls == 2
MaxClock == 2

\* The branch names createPullRequestInfo is given.
PrBranches == {DerivedBranch, "feature-x"}

\* Date.prototype.toISOString: the time down to the millisecond.
ToISOString(ms) == <<ms \div 1000, ".", ms % 1000, "Z">>

\* The times of day at which createPullRequestInfo can be called, in
\* milliseconds.
ClockTimes == {500 * k : k \in 0..MaxClock}

\* createPullRequestInfo(branch, apis), lines 159-187, called at time now:
\* the title, the body line by line (the fixed lines by their headings), and
\* the branch.
CreatePullRequestInfo(branch, apis, now) ==
  [title |-> <<"Add API integrations: ">>
               \o Join([j \in 1..Len(apis) |-> W(apis[j])], <<",", SP>>),
   body |-> << <<"## API Integrations Added">> >>
              \o [j \in 1..Len(apis) |-> <<"- ", apis[j]>>]
              \o << <<"### Files Changed">>, <<"### Setup Instructions">>,
                    <<"### Generated by">>,
                    <<"Codebase API Integrator (TypeScript) - ">>
                      \o ToISOString(now) >>,
   branch |-> branch]

\* A branch and a capability list, a working copy in which the branch was or
\* was not pushed, and the clock; wf collects what the calls returned.
InitPr ==
  /\ pc = "pr_ready"
  /\ opts \in [branch : PrBranches, apis : SeqsUpTo(ApiNames, MaxApis)]
  /\ \E pushed \in BOOLEAN : repo = [InitRepo EXCEPT !.pushed = pushed]
  /\ idx \in ClockTimes
  /\ wf = <<>>
  /\ result = "none"
  /\ hasKey = TRUE
  /\ dirExists = TRUE
  /\ acquired = TRUE
  /\ info = InitInfo
  /\ genCalls = <<>>
  /\ planState = "none"
  /\ plan = EmptyPlan
  /\ disk = NoFiles
  /\ prompts = 0
  /\ approved = "none"
  /\ gitLog = <<>>
  /\ console = {}
  /\ rm = "none"

\* Time passes between two calls.
PrTick ==
  /\ pc = "pr_ready"
  /\ idx + 500 \in ClockTimes
  /\ idx' = idx + 500
  /\ UNCHANGED <<pc, opts, hasKey, dirExists, acquired, info, genCalls,
                 planState, plan, disk, prompts, approved, repo, gitLog, wf,
                 console, result, rm>>

\* createPullRequestInfo(opts.branch, opts.apis), lines 159-187.
PrCall ==
  /\ pc = "pr_ready"
  /\ Len(wf) < MaxPrCalls
  /\ wf' = Append(wf, CreatePullRequestInfo(opts.branch, opts.apis, idx))
  /\ result' = "returned"
  /\ UNCHANGED <<pc, opts, hasKey, dirExists, acquired, info, idx, genCalls,
                 planState, plan, disk, prompts, approved, repo, gitLog,
                 console, rm>>

NextPr ==
  \/ PrTick
  \/ PrCall

SpecPr == InitPr /\ [][NextPr]_vars

\* ------------------------------------------------- the web guide's requests
\* getWebOptimizedApis(framework), webApiIntegrations.ts lines 523-533.
GetWebOptimizedApis(framework) ==
  LET baseApis == <<"intercom", "stripe", "segment", "sentry">> IN
  IF framework \in {"nextjs", "react"} THEN baseApis \o <<"clerk", "posthog">>
  ELSE IF framework \in {"vue", "angular"} THEN baseApis \o <<"auth0", "mixpanel">>
  ELSE baseApis

\* The API names of the three commands of README_WEB_APIS.md, lines 42-80.
WebGuideRequests ==
  { <<"intercom", "stripe", "clerk", "sentry">>,
    <<"segment", "posthog", "stripe">>,
    <<"auth0", "mixpanel", "intercom">> }

\* run() called with a list of names the web guide offers or
\* getWebOptimizedApis returns for a value of --framework, or for none.
InitWeb ==
  /\ pc = "start"
  /\ opts \in [apis : WebGuideRequests
                        \cup {GetWebOptimizedApis(f) :
                                f \in {"nextjs", "react", "vue", "angular",
                                       "undefined"}},
               autoApprove : BOOLEAN, pushToRemote : OptBool,
               keepClone : BOOLEAN]
  /\ hasKey \in BOOLEAN
  /\ dirExists \in BOOLEAN
  /\ acquired = FALSE
  /\ info = InitInfo
  /\ idx = 1
  /\ genCalls = <<>>
  /\ planState = "none"
  /\ plan = EmptyPlan
  /\ disk = NoFiles
  /\ prompts = 0
  /\ approved = "none"
  /\ repo = InitRepo
  /\ gitLog = <<>>
  /\ wf = InitWf
  /\ console = {}
  /\ result = "none"
  /\ rm = "none"

SpecWeb == InitWeb /\ [][Next]_vars

\* ------------------------------------------------------------------ typing
TypeOK ==
  /\ pc \in {"start", "clone", "analyze", "build", "save", "workflow",
             "approval", "branch", "stage", "commit", "push", "report",
             "finally", "done"}
  /\ result \in {"none", "true", "false"}
  /\ approved \in {"none", "yes", "no"}
  /\ rm \in {"none", "ok", "failed"}
  /\ planState \in {"none", "building", "built"}
  /\ prompts \in 0..MaxReprompts
  /\ idx \in 1..(Len(opts.apis) + 1)


\* ------------------------------------------------------------------ claims
\* The git subcommand of a logged command: the first word git received.
Subcommand(entry) == entry.argv[1][1]

Issued(sub) == {j \in 1..Len(gitLog) : Subcommand(gitLog[j]) = sub}

Finished == pc = "done"

\* C1: in one execution of run, whatever the operator answers at the approval
\* prompt and whatever the git commands return, commitChanges is invoked at
\* most once and at most one git commit command is run.
C1_AtMostOneCommit ==
  /\ wf.commitCalls <= 1
  /\ Cardinality(Issued("commit")) <= 1
  /\ repo.newCommits <= 1

\* A finished run in which the operator reviewed the details, then gave a
\* custom message, and the commit was invoked.
C1_Witness ==
  /\ Finished
  /\ "detailed changes" \in console
  /\ "invalid choice" \in console
  /\ plan.commitMessage # <<>>
  /\ wf.commitCalls = 1

\* C2 as stated: once the working copy is acquired, when run has returned the
\* directory is gone if keepClone was not requested and is there if it was.
C2_DirectoryGoneUnlessKept ==
  (Finished /\ acquired) => (dirExists <=> opts.keepClone)

\* C2, amended: once the working copy is acquired, on every exit path the
\* removal is attempted exactly when keepClone was not requested; the
\* directory is gone when run has returned unless that removal failed, and it
\* is still there, with no removal attempted, when keepClone was requested.
C2_CleanupOnEveryExit ==
  (Finished /\ acquired) =>
    IF opts.keepClone
      THEN dirExists /\ rm = "none"
      ELSE /\ rm \in {"ok", "failed"}
           /\ (rm = "ok" => ~dirExists)
           /\ (rm = "failed" => dirExists /\ "could not clean up" \in console)

\* A run that ended by an exception of the plan builder after the clone, with
\* the directory removed.
C2_Witness ==
  /\ Finished
  /\ acquired
  /\ "generation failed" \in console
  /\ ~opts.keepClone
  /\ rm = "ok"
  /\ ~dirExists

\* C3: commitChanges returns the hash of the new commit when git commit
\* succeeds and the empty string when git commit fails.
C3_CommitReturnsHashOrEmpty ==
  wf.commitCalls > 0 =>
    IF wf.commitOk THEN wf.commitHash = NewHash ELSE wf.commitHash = ""

\* C4: when git commit fails, commitAndPush returns false, no push is
\* attempted and run does not return success.
C4_CommitFailureEndsRun ==
  (wf.commitCalls > 0 /\ ~wf.commitOk) =>
    /\ wf.pushCalls = 0
    /\ wf.returned # "true"
    /\ result # "true"

\* C5: a run the operator approved and that returned success has produced
\* exactly one new commit in the working copy.
C5_CompletedRunHasOneCommit ==
  (Finished /\ approved = "yes" /\ result = "true") => repo.newCommits = 1

\* C6: when a run created a commit that was not published, the working copy
\* holding it still exists after run returns.
C6_UnpublishedCommitKept ==
  (Finished /\ repo.newCommits > 0 /\ ~repo.pushed) => dirExists

\* Words that make git discard or rewrite commits.
RollbackSubcommands == {"reset", "revert", "branch", "rebase"}

C8_NoPushUnlessRequested ==
  ~Truthy(opts.pushToRemote) =>
    /\ wf.pushCalls = 0
    /\ Issued("push") = {}

\* The force flags of git push.
ForceFlags == {W("--force-with-lease"), W("--force"), W("-f")}

NoForcedPush ==
  \A j \in Issued("push") :
    \A k \in 1..Len(gitLog[j].argv) : gitLog[j].argv[k] \notin ForceFlags

SomeUnknown(apis) == \E j \in 1..Len(apis) : ~Supported(ToLowerCase(apis[j]))

\* C10: if a requested identifier is not in the catalog, the build of run
\* fails before any call of the generation collaborator, and no plan is
\* produced or persisted.
C10_UnknownFailsUpFront ==
  SomeUnknown(opts.apis) =>
    /\ genCalls = <<>>
    /\ planState # "built"
    /\ DOMAIN disk = {}

\* The capabilities a plan builder has processed so far, in request order:
\* the catalog keys of the names before position idx.
Processed ==
  SelectSeq([j \in 1..(idx - 1) |-> ToLowerCase(opts.apis[j])],
            LAMBDA k : Supported(k))

\* C11: if the generation collaborator fails for any capability or for the
\* usage demo, the plan build aborts: no plan is returned, the persister is
\* not invoked for that run (no file is written) and no git operation is
\* performed; this holds for run and for analyzeAndIntegrate with its caller.
C11_GenerationFailureAborts ==
  "generation failed" \in console =>
    /\ planState = "none"
    /\ result \notin {"true", "plan"}
    /\ pc \notin {"save", "t_save", "workflow"}
    /\ DOMAIN disk = {}
    /\ gitLog = <<>>

\* A run of analyzeAndIntegrate that ended by a generation failure after a
\* capability had been generated.
C11_Witness ==
  /\ pc = "t_done"
  /\ "generation failed" \in console
  /\ Len(plan.changes) >= 1
  /\ result = "threw"

RECURSIVE DepsInRequestOrder(_)
\* The dependencies the requested capabilities declare, in request order.
DepsInRequestOrder(apis) ==
  IF Len(apis) = 0 THEN <<>>
  ELSE (IF Supported(ToLowerCase(apis[1]))
          THEN SUPPORTED_APIS(ToLowerCase(apis[1])).npmDependencies
          ELSE <<>>)
       \o DepsInRequestOrder(Tail(apis))

FirstIndex(list, x) ==
  CHOOSE j \in 1..Len(list) : list[j] = x /\ \A k \in 1..(j - 1) : list[k] # x

\* C12: the finalized plan's dependency list holds every dependency of the
\* requested capabilities exactly once, ordered by first appearance across
\* the capabilities in request order, in both builders.
C12_DepsOnceInFirstAppearanceOrder ==
  planState = "built" =>
    LET deps == plan.npmDependencies
        all == DepsInRequestOrder(opts.apis)
    IN /\ Range(deps) = Range(all)
       /\ \A j, k \in 1..Len(deps) :
            j < k => /\ deps[j] # deps[k]
                     /\ FirstIndex(all, deps[j]) < FirstIndex(all, deps[k])

\* A built plan of two capabilities that declare the same dependency.
C12_Witness ==
  /\ planState = "built"
  /\ Len(opts.apis) = 2
  /\ opts.apis[1] # opts.apis[2]
  /\ Len(DepsInRequestOrder(opts.apis)) > Len(plan.npmDependencies)

\* C13: the keys of the plan's envPlaceholders are exactly the union of the
\* env-var keys of the capabilities processed, and a key declared by several
\* of them has the value of the one processed last; at every point of the
\* build, in both builders.
C13_EnvKeysAreUnionLaterWins ==
  planState # "none" =>
    LET env == plan.envPlaceholders
        done == Processed
        declared == [j \in 1..Len(done) |-> SUPPORTED_APIS(done[j]).envVars]
    IN /\ Keys(env) = UNION {Keys(declared[j]) : j \in 1..Len(done)}
       /\ Cardinality(Keys(env)) = Len(env)
       /\ \A key \in Keys(env) :
            LET last == CHOOSE j \in 1..Len(done) :
                          /\ key \in Keys(declared[j])
                          /\ \A k \in (j + 1)..Len(done) :
                               key \notin Keys(declared[k])
            IN Get(env, key) = Get(declared[last], key)

\* A built plan of two processed capabilities that declare a common key.
C13_Witness ==
  /\ planState = "built"
  /\ Len(Processed) = 2
  /\ Keys(SUPPORTED_APIS(Processed[1]).envVars)
       \cap Keys(SUPPORTED_APIS(Processed[2]).envVars) # {}
  /\ Len(plan.envPlaceholders) > 0

\* C14: every key of envPlaceholders maps to a non-empty value, at every
\* point of the incremental build and in the final plan, and every variable
\* an entry of the catalog declares has a non-empty placeholder (the catalog
\* never changes: it is examined where a request starts).
C14_EnvValuesNonEmpty ==
  /\ \A j \in 1..Len(plan.envPlaceholders) :
       /\ Len(plan.envPlaceholders[j]) = 2
       /\ plan.envPlaceholders[j][2] # ""
  /\ pc \in {"start", "t_start"} =>
       \A key \in CatalogKeys :
         LET env == SUPPORTED_APIS(key).envVars
         IN \A j \in 1..Len(env) : Len(env[j]) = 2 /\ env[j][2] # ""

\* A plan still being built that already holds placeholders, with a
\* capability left to process.
C14_Witness ==
  /\ planState = "building"
  /\ pc = "ai_build"
  /\ idx = 2
  /\ Len(opts.apis) = 2
  /\ Len(plan.envPlaceholders) >= 2

\* A path that does not start at the root of the file system.
IsRelative(path) == Len(path) > 0 /\ path[1] # "/"

\* C15: in every plan a builder produced, every FileChange.path is relative
\* and no two entries of plan.changes have the same path.
C15_PathsRelativeAndUnique ==
  planState = "built" =>
    /\ \A j \in 1..Len(plan.changes) : IsRelative(plan.changes[j].path)
    /\ \A j, k \in 1..Len(plan.changes) :
         j # k => plan.changes[j].path # plan.changes[k].path

\* saveIntegrationPlan has returned, once or twice.
Persisted == pc \in {"p_once", "p_twice"}

\* C16: after saveIntegrationPlan(plan, root) completes, for every FileChange
\* of plan.changes the file at root/<change.path> holds exactly
\* change.updated.
C16_RoundTrip ==
  Persisted =>
    \A j \in 1..Len(plan.changes) :
      /\ plan.changes[j].path \in DOMAIN disk
      /\ disk[plan.changes[j].path] = plan.changes[j].updated

\* The file at path is there and is not one an earlier use left behind.
Written(path) == path \in DOMAIN disk /\ disk[path] # StaleDocument

\* The lines of a document that start with the bullet.
Bullets(doc) == SelectSeq(doc, LAMBDA line : Len(line) > 0 /\ line[1] = "- ")

\* C17: saveIntegrationPlan writes the dependency addendum, the env
\* template, the notes document and the setup-instructions document exactly
\* when npmDependencies, envPlaceholders, notes and setupInstructions,
\* respectively, are non-empty; the notes document holds each note as one
\* bulleted line.
C17_ArtifactsIffNonEmpty ==
  Persisted =>
    /\ Written(<<"package_additions.json">>) <=> Len(plan.npmDependencies) > 0
    /\ Written(<<".env.example">>) <=> Len(plan.envPlaceholders) > 0
    /\ Written(<<"INTEGRATION_NOTES.md">>) <=> Len(plan.notes) > 0
    /\ Written(<<"SETUP.md">>) <=> Len(plan.setupInstructions) > 0
    /\ Len(plan.notes) > 0 =>
         LET bullets == Bullets(disk[<<"INTEGRATION_NOTES.md">>])
         IN /\ Len(bullets) = Len(plan.notes)
            /\ \A j \in 1..Len(plan.notes) :
                 bullets[j] = <<"- ">> \o plan.notes[j]

\* A plan with no setup instruction and one note saved into an empty
\* directory: no SETUP.md, and a notes document with the note.
C17_Witness ==
  /\ pc = "p_once"
  /\ Len(plan.setupInstructions) = 0
  /\ Len(plan.notes) = 1
  /\ <<"SETUP.md">> \notin DOMAIN disk
  /\ Len(Bullets(disk[<<"INTEGRATION_NOTES.md">>])) = 1

\* C18: saving the same plan into the same output root a second time leaves
\* the same files with the same contents as saving it once.
C18_PersistTwiceSameAsOnce ==
  [][(pc = "p_once" /\ pc' = "p_twice") => disk' = disk]_vars

\* A plan with two changes and notes saved twice over the files of an
\* earlier use.
C18_Witness ==
  /\ pc = "p_twice"
  /\ Len(plan.changes) = 2
  /\ Len(plan.notes) > 0
  /\ <<"README.md">> \in DOMAIN disk
  /\ disk[IntegrationPath("senso", "ts")] # StaleDocument

\* The `checkout -b` commands that succeeded.
Creations ==
  SelectSeq(gitLog, LAMBDA e : /\ e.code = 0
                               /\ Len(e.argv) > 1
                               /\ e.argv[1] = W("checkout")
                               /\ e.argv[2] = W("-b"))

\* C19: after each of two calls of createIntegrationBranch with the same
\* explicit name, the call has returned that name, the branch has been
\* created at most once, and the working copy is on that branch.
C19_BranchIdempotent ==
  pc \in {"b_called", "b_seen"} =>
    /\ wf.branchName = opts.branchName
    /\ Len(Creations) <= 1
    /\ GetCurrentBranch(repo) = opts.branchName

\* C20: when createIntegrationBranch has returned b, getCurrentBranch
\* returns b.
C20_ReturnsBranchInUse ==
  pc = "b_seen" => result = wf.branchName

\* C21: after addFiles has returned, every listed path that exists is staged
\* and reported as added, every listed path that does not exist is reported
\* with a warning and is not staged, and the call has returned normally.
C21_StagingBestEffort ==
  pc = "s_done" =>
    /\ result = "returned"
    /\ Len(wf.printed) = Len(opts.files)
    /\ \A j \in 1..Len(opts.files) :
         IF opts.files[j] \in DOMAIN disk
           THEN /\ wf.printed[j] = <<"Added: ", opts.files[j]>>
                /\ opts.files[j] \in repo.staged
           ELSE /\ wf.printed[j] = <<"Warning: File not found: ", opts.files[j]>>
                /\ opts.files[j] \notin repo.staged

\* The part of C21 that the code keeps: a path that does not exist is
\* reported and skipped, git add is run once for each path that exists, in
\* the list's order and also after a missing path, and addFiles returns.
C21_MissingPathsSkipped ==
  pc = "s_done" =>
    /\ result = "returned"
    /\ Len(wf.printed) = Len(opts.files)
    /\ \A j \in 1..Len(opts.files) :
         opts.files[j] \notin DOMAIN disk =>
           /\ wf.printed[j] = <<"Warning: File not found: ", opts.files[j]>>
           /\ opts.files[j] \notin repo.staged
    /\ gitLog = [k \in 1..Len(Existing(opts.files, DOMAIN disk)) |->
                   [argv |-> ShellSplit(CommandLine(
                               <<W("add"), Existing(opts.files, DOMAIN disk)[k]>>)),
                    code |-> gitLog[k].code]]

\* addFiles was given a missing path followed by an existing one.
C21_Witness ==
  /\ pc = "s_done"
  /\ Len(opts.files) = 2
  /\ opts.files[1] \notin DOMAIN disk
  /\ opts.files[2] \in repo.staged

\* What a step of the approval leaves alone when it goes back to the prompt:
\* the working copy, the commands run, the plan, and nothing returned.
BackAtApproval ==
  /\ pc' \in {"a_prompt", "a_detail"}
  /\ result' = "none"
  /\ repo' = repo
  /\ gitLog' = gitLog
  /\ plan' = plan

\* C22: at the approval prompt the answers 1, 2, 3 and 4 are the choices and
\* every other answer is reported as invalid; choice 2 and an invalid answer
\* lead back to the prompt (choice 2 through the walkthrough, which stops
\* after each third file while more remain) with no git command run and the
\* working copy and plan unchanged; the prompt is left only on 1, 3 or 4.
C22_ApprovalChoices ==
  [][/\ pc = "a_prompt" =>
          LET choice == Trim(wf'.answer) IN
          /\ IF choice \in {W("1"), W("2"), W("3"), W("4")}
               THEN "invalid choice" \notin console' \ console
               ELSE "invalid choice" \in console'
          /\ choice \notin {W("1"), W("3"), W("4")} => BackAtApproval
          /\ choice = W("2") =>
               /\ wf'.shown = NextBatch(0, Len(plan.changes))
               /\ pc' = "a_detail" <=> Len(plan.changes) > 3
          /\ choice = W("1") => pc' = "a_done" /\ result' = "true"
          /\ choice = W("3") => pc' = "a_custom" /\ result' = "none"
          /\ choice = W("4") => pc' = "a_done" /\ result' = "false"
     /\ pc = "a_detail" =>
          /\ BackAtApproval
          /\ wf.shown % 3 = 0 /\ wf.shown < Len(plan.changes)
          /\ wf'.shown <= wf.shown + 3]_vars

\* The prompt is back after a walkthrough that was continued to the last of
\* more than three files.
C22_Witness ==
  /\ pc = "a_prompt"
  /\ Trim(wf.answer) = W("2")
  /\ Len(plan.changes) > 3
  /\ wf.shown = Len(plan.changes)
  /\ result = "none"
  /\ gitLog = <<>>

\* The prompt is back after an answer that is none of the four choices.
C22_WitnessInvalid ==
  /\ pc = "a_prompt"
  /\ Trim(wf.answer) = W("x")
  /\ "invalid choice" \in console
  /\ result = "none"

\* C23: when getUserApproval has returned after choice 3, a message that is
\* not blank has approved the commit and is the plan's commit message, and a
\* blank message has not approved it.
C23_EmptyCustomMessageDoesNotApprove ==
  pc = "a_done" /\ Trim(wf.answer) = W("3") =>
    IF Trim(wf.input) # <<>>
      THEN result = "true" /\ plan.commitMessage = Trim(wf.input)
      ELSE result = "false" /\ plan.commitMessage = <<>>

\* The part of C23 that the code keeps: a message that is not blank approves
\* the commit and becomes, trimmed, the plan's commit message.
C23_EnteredMessageApproves ==
  pc = "a_done" /\ Trim(wf.answer) = W("3") /\ Trim(wf.input) # <<>> =>
    result = "true" /\ plan.commitMessage = Trim(wf.input)

\* The steps of commitAndPush and of the report that follows it, in order.
CommitSteps == <<"branch", "stage", "commit", "push", "report", "finally">>

\* C24: the run is cancelled only by a step taken at the approval prompt;
\* when it is cancelled no git command has run, the working copy's branches,
\* index and commits are as cloned, nothing was pushed, and run returns
\* false; and each step of commitAndPush is followed by its next step, with
\* the approval standing and no further answer asked of the operator.
C24_CancelOnlyAtApproval ==
  [][/\ approved' = "no" =>
          /\ approved = "no" \/ (pc = "approval" /\ ~opts.autoApprove)
          /\ gitLog' = <<>>
          /\ repo' = InitRepo
          /\ [wf' EXCEPT !.rl = "none", !.runRl = "open"] = InitWf
          /\ result' = "false"
          /\ pc' \in {"finally", "done"}
     /\ \A k \in 1..5 :
          pc = CommitSteps[k] =>
            /\ pc' = CommitSteps[k + 1]
            /\ approved = "yes" /\ approved' = "yes"
            /\ prompts' = prompts
            /\ plan' = plan]_vars

\* The operator cancelled after having been asked again, and the run is over.
C24_Witness ==
  /\ approved = "no"
  /\ prompts > 0
  /\ pc = "done"
  /\ result = "false"
  /\ gitLog = <<>>

\* C25: a step in which fs.rmSync fails, in the finally block of run or of
\* analyzeAndIntegrate, leaves the operation's result as it would be without
\* the failure: run returns what it was about to return, and
\* analyzeAndIntegrate returns the plan it built or throws the error it
\* caught.
C25_DeletionFailureNeverEscalated ==
  [][rm' = "failed" /\ rm # "failed" =>
       /\ pc = "finally" =>
            /\ result' = result
            /\ "could not clean up" \in console'
       /\ pc = "ai_finally" =>
            /\ result' = IF planState = "built" THEN "plan" ELSE "threw"
            /\ planState' = planState]_vars

\* The part of C25 that the code keeps: in run's finally block a failed
\* deletion is reported and run returns what it was about to return.
C25_RunDeletionFailureOnlyLogged ==
  [][rm' = "failed" /\ rm # "failed" /\ pc = "finally" =>
       /\ result' = result
       /\ pc' = "done"
       /\ "could not clean up" \in console']_vars

\* C26: every clone directory a run has deleted is one that this run cloned;
\* a run whose clone failed has deleted none.
C26_DeletesOnlyOwnClone ==
  /\ \A d \in wf : d[1] = d[2]
  /\ \A r \in Runs : rm[r] = "ok" => acquired[r]

\* C27: the calls of analyze() over the unchanged working copy, on a new
\* analyzer or again on the same one, all have the same outcome.
C27_AnalyzerDeterminism ==
  \A j, k \in 1..Len(wf) :
    wf[j].threw = wf[k].threw /\ wf[j].info = wf[k].info

\* The part of C27 that the code keeps: calls of analyze() on new analyzers
\* have the same outcome, and a repeated call on the same analyzer differs
\* from them at most in entryPoints.
C27_NewAnalyzersAgree ==
  \A j, k \in 1..Len(wf) :
    /\ wf[j].threw = wf[k].threw
    /\ wf[j].fresh /\ wf[k].fresh => wf[j].info = wf[k].info
    /\ [wf[j].info EXCEPT !.entryPoints = <<>>]
         = [wf[k].info EXCEPT !.entryPoints = <<>>]

\* C28: analyze() on a working copy whose package.json is not valid JSON
\* returns a CodebaseInfo, without a framework.
C28_MalformedManifestIgnored ==
  disk.packageJson.exists /\ ~disk.packageJson.valid =>
    \A j \in 1..Len(wf) : ~wf[j].threw /\ wf[j].info.framework = "null"

\* C29: no path is in more than one of the lists staged, modified and
\* untracked that getUncommittedChanges returned.
C29_ListsPairwiseDisjoint ==
  pc = "q_seen" =>
    /\ Range(wf.staged) \cap Range(wf.modified) = {}
    /\ Range(wf.staged) \cap Range(wf.untracked) = {}
    /\ Range(wf.modified) \cap Range(wf.untracked) = {}

\* The part of C29 that the code keeps: untracked shares no path with staged
\* or with modified.
C29_UntrackedDisjoint ==
  pc = "q_seen" =>
    /\ Range(wf.staged) \cap Range(wf.untracked) = {}
    /\ Range(wf.modified) \cap Range(wf.untracked) = {}

\* C30: all calls of createPullRequestInfo with the same branch and
\* capability list return the same title, body and branch.
C30_PullRequestInfoPure ==
  \A j, k \in 1..Len(wf) : wf[j] = wf[k]

\* The part of C30 that the code keeps: the calls return the same title and
\* branch, and bodies that differ at most in their last line (the time).
C30_SameButForTime ==
  \A j, k \in 1..Len(wf) :
    /\ wf[j].title = wf[k].title
    /\ wf[j].branch = wf[k].branch /\ wf[j].branch = opts.branch
    /\ Len(wf[j].body) = Len(wf[k].body)
    /\ \A n \in 1..(Len(wf[j].body) - 1) : wf[j].body[n] = wf[k].body[n]

\* The steps of run() during which the InteractiveGitWorkflow object exists
\* and has not yet returned from commitAndPush.
InWorkflow == pc \in {"approval", "branch", "stage", "commit", "push"}

\* C31: no step of the workflow (the summary, the approval prompt with any
\* answer, commitAndPush) changes the plan it was constructed with.
C31_PlanImmutableInWorkflow ==
  [][pc = "workflow" \/ InWorkflow => plan' = plan]_vars

\* The part of C31 that the code keeps: the fields the plan was built with
\* stay as they were; only commitMessage is added.
C31_OnlyCommitMessageAdded ==
  [][pc = "workflow" \/ InWorkflow =>
       [plan' EXCEPT !.commitMessage = <<>>]
         = [plan EXCEPT !.commitMessage = <<>>]]_vars

\* The paths of the `git add` commands run, in order.
PathsStaged ==
  LET adds == SelectSeq(gitLog, LAMBDA e : Subcommand(e) = "add")
  IN [j \in 1..Len(adds) |-> SubSeq(adds[j].argv, 2, Len(adds[j].argv))]

\* What the claim says is staged: the path of every change of the plan, then
\* the auxiliary files that exist.
PathsToStage ==
  [j \in 1..Len(plan.changes) |-> <<plan.changes[j].path>>]
    \o [j \in 1..Len(Existing(AdditionalFiles, DOMAIN disk)) |->
          <<Existing(AdditionalFiles, DOMAIN disk)[j]>>]

\* The message commitAndPush is to commit with.
MessageToCommit ==
  IF plan.commitMessage # <<>> THEN plan.commitMessage
  ELSE <<"Add", SP, "API", SP, "integrations">>
         \o (IF Len(opts.apis) > 0
               THEN <<SP, "for", SP>>
                      \o Join([j \in 1..Len(opts.apis) |-> W(opts.apis[j])],
                              <<",", SP>>)
               ELSE <<>>)

\* C32: when commitAndPush has run its commit, git add has been run for the
\* path of every change of the plan and for each auxiliary file that exists,
\* and for nothing else, and git commit has received as its message the
\* operator's message if one was given and the generated default otherwise.
C32_StagedPathsAndMessage ==
  pc \in {"push", "report"} =>
    /\ PathsStaged = PathsToStage
    /\ \A j \in Issued("commit") :
         gitLog[j].argv = <<W("commit"), W("-m"), MessageToCommit>>

\* The part of C32 that the code keeps: the paths staged are as claimed, and
\* commitChanges is called with the message as claimed.
C32_StagedPathsAndMessagePassed ==
  pc \in {"push", "report"} =>
    /\ PathsStaged = PathsToStage
    /\ wf.message = MessageToCommit
    /\ Cardinality(Issued("commit")) = 1

\* The catalog keys of the requested names that are in the catalog, in
\* request order.
RequestedKeys ==
  SelectSeq([j \in 1..Len(opts.apis) |-> ToLowerCase(opts.apis[j])],
            LAMBDA k : Supported(k))

\* C33: the collaborator calls made so far are, in request order, the code
\* calls for the requested capabilities, and then, only after all of those,
\* the one usage call; and a built plan holds one change per requested
\* capability in request order, then the usage example, then the index.
C33_CallsAndChangesInRequestOrder ==
  LET keys == RequestedKeys
      n == Len(opts.apis)
  IN /\ Len(genCalls) <= Len(keys) + 1
     /\ \A j \in 1..Len(genCalls) :
          IF j <= Len(keys) THEN genCalls[j] = <<"code", keys[j]>>
          ELSE genCalls[j] = <<"usage">>
     /\ planState = "built" =>
          /\ Len(genCalls) = n + 1
          /\ Len(plan.changes) = n + 2
          /\ \A j \in 1..n :
               /\ plan.changes[j].path[2] = ToLowerCase(opts.apis[j])
               /\ plan.changes[j].path[3] = "Integration."
               /\ plan.changes[j].updated
                    = CollaboratorText(<<"code", ToLowerCase(opts.apis[j])>>, j)
          /\ plan.changes[n + 1].path[2] = "integrationDemo."
          /\ plan.changes[n + 1].updated = CollaboratorText(<<"usage">>, n + 1)
          /\ plan.changes[n + 2].path[2] = "index."

\* analyzeAndIntegrate returned a plan for two different capabilities.
C33_Witness ==
  /\ pc = "t_save"
  /\ planState = "built"
  /\ Len(opts.apis) = 2
  /\ opts.apis[1] # opts.apis[2]
  /\ Len(plan.changes) = 4

\* What a note is about, by the words it starts with.
NoteKind(note) ==
  CASE note[1] = "Generated integrations for: " -> "capabilities"
    [] note[1] \in {"Target: ", "Target language: "} -> "language"
    [] note[1] \in {"Framework: ", "Framework detected: "} -> "framework"
    [] note[1] \in {"Web application - generated browser-compatible code",
                    "Web application detected - generated browser-compatible code where applicable"}
         -> "web application"
    [] note[1] = "Remember to set all environment variables before running"
         -> "reminder"
    [] OTHER -> "other"

\* The summary notes a finalized plan is to end with, for the analysis ci.
SummaryKinds(ci) ==
  <<"capabilities", "language">>
    \o (IF ci.framework # "none" THEN <<"framework">> ELSE <<>>)
    \o (IF ci.isWebApp THEN <<"web application">> ELSE <<>>)
    \o <<"reminder">>

\* C34: the notes of every built plan end with the summary notes in order:
\* capabilities, language, framework if one was detected, web application if
\* isWebApp, and last the reminder about the environment variables.
C34_SummaryNotesInOrder ==
  planState = "built" =>
    LET kinds == SummaryKinds(info)
        first == Len(plan.notes) - Len(kinds)
    IN /\ first >= 0
       /\ \A j \in 1..Len(kinds) : NoteKind(plan.notes[first + j]) = kinds[j]

\* The part of C34 that the code keeps: the plan analyzeAndIntegrate returns
\* ends with the summary notes, and the plan built inside run ends with
\* them but for the reminder.
C34_SummaryNotesButReminderInRun ==
  planState = "built" =>
    LET inRun == pc \notin {"ai_finally", "t_save", "t_done"}
        all == SummaryKinds(info)
        kinds == IF inRun THEN SubSeq(all, 1, Len(all) - 1) ELSE all
        first == Len(plan.notes) - Len(kinds)
    IN /\ first >= 0
       /\ \A j \in 1..Len(kinds) : NoteKind(plan.notes[first + j]) = kinds[j]

\* The requested names the builder of run has gone through have each their
\* integration file among the plan's changes.
ProcessedHaveFiles ==
  \A j \in 1..(idx - 1) :
    \E k \in 1..Len(plan.changes) :
      plan.changes[k].path
        = IntegrationPath(ToLowerCase(opts.apis[j]), FileExt(info))

\* C35: in a run for names the web guide or getWebOptimizedApis offers, no
\* name is skipped as unknown, the build does not fail on a name, and each
\* name gone through has its integrations/<name>Integration file in the
\* plan.
C35_WebApisAreKnown ==
  /\ "skipping unknown api" \notin console
  /\ "type error" \notin console
  /\ pc = "build" \/ planState = "built" => ProcessedHaveFiles

\* The part of C35 that the code keeps: it holds for the names
\* getWebOptimizedApis returns without a framework.
C35_BaseWebApisAreKnown ==
  opts.apis = GetWebOptimizedApis("undefined") =>
    /\ "skipping unknown api" \notin console
    /\ "type error" \notin console
    /\ pc = "build" \/ planState = "built" => ProcessedHaveFiles

\* The positions of run after the clone, the analysis, the build, the save,
\* the summary and the approval.
AfterClone ==
  {"analyze", "build", "save", "workflow", "approval", "branch", "stage",
   "commit", "push", "report"}

AfterAnalyze == AfterClone \ {"analyze"}

AfterBuild == AfterAnalyze \ {"build"}

AfterSave == AfterBuild \ {"save"}

AfterSummary == AfterSave \ {"workflow"}

AfterApproval == AfterSummary \ {"approval"}

\* The place of a git command in the pipeline; 0 for a command that changes
\* nothing.
MutationRank(entry) ==
  CASE Subcommand(entry) = "checkout" -> 1
    [] Subcommand(entry) = "add" -> 2
    [] Subcommand(entry) = "commit" -> 3
    [] Subcommand(entry) = "push" -> 4
    [] OTHER -> 0

\* Each stage is reached only with the result of the stage before, the git
\* commands are issued in pipeline order and none before the approval, and
\* the working copy is released last.
StagesInOrder ==
  /\ pc \in AfterClone => acquired
  /\ pc \in AfterAnalyze => info # InitInfo
  /\ pc \in AfterBuild => planState = "built"
  /\ pc \in AfterSave =>
       \A j \in 1..Len(plan.changes) : plan.changes[j].path \in DOMAIN disk
  /\ pc \in AfterSummary => "summary" \in console
  /\ pc \in AfterApproval => approved = "yes"
  /\ approved # "yes" => gitLog = <<>>
  /\ \A i, j \in 1..Len(gitLog) :
       i < j /\ MutationRank(gitLog[i]) > 0 /\ MutationRank(gitLog[j]) > 0
         => MutationRank(gitLog[i]) <= MutationRank(gitLog[j])
  /\ pc \in {"stage", "commit", "push", "report"} => Issued("checkout") # {}
  /\ pc \in {"push", "report"} => Issued("commit") # {}
  /\ Issued("push") # {} => pc \in {"report", "finally", "done"}
  /\ rm # "none" => pc = "done"

\* Every git command of the given kind that was issued succeeded.
AllSucceeded(sub) == \A j \in Issued(sub) : gitLog[j].code = 0

\* C36: the stages of a run execute in pipeline order (clone, analyze, build
\* plan, persist, summary, approval, ensure-branch, stage, commit, push,
\* release last), no git mutation happens before approval, and each stage
\* starts only after its predecessor succeeded: paths are staged only after
\* a checkout that succeeded, the commit is made only after the staging
\* succeeded, and the push only after the commit succeeded.
C36_StagesInOrderAfterSuccess ==
  /\ StagesInOrder
  /\ pc \in {"commit", "push", "report"} \/ Issued("add") # {}
       => AllSucceeded("checkout")
  /\ pc \in {"push", "report"} \/ Issued("commit") # {} => AllSucceeded("add")
  /\ pc = "report" \/ Issued("push") # {} => AllSucceeded("commit")

\* The part of C36 that the code keeps: the order of the stages, with no git
\* mutation before approval and the release last.
C36_StagesInPipelineOrder ==
  /\ StagesInOrder
  /\ Finished /\ Issued("push") # {} => approved = "yes"

\* C37: showDetailedChanges over n file changes shows them in order (files
\* 1..shown), asks to continue only after a group of three that does not end
\* with the last change, has asked floor((n-1)/3) times when all n were
\* shown, shows no further change after the answer q, and shows all n after
\* any other answers.
C37_WalkthroughInGroupsOfThree ==
  LET n == Len(plan.changes) IN
  /\ wf.shown \in 0..n
  /\ pc = "a_detail" => wf.shown > 0 /\ wf.shown % 3 = 0 /\ wf.shown < n
  /\ wf.asked = IF n > 0 /\ wf.shown = n THEN (n - 1) \div 3
                ELSE wf.shown \div 3
  /\ pc = "a_prompt" /\ "detailed changes" \in console =>
       IF LowerText(wf.input) = W("q")
         THEN wf.shown > 0 /\ wf.shown % 3 = 0 /\ wf.shown < n
         ELSE wf.shown = n

\* A walkthrough of seven changes that was continued twice and showed them
\* all.
C37_Witness ==
  /\ pc = "a_prompt"
  /\ Len(plan.changes) = 7
  /\ wf.shown = 7
  /\ wf.asked = 2
  /\ "detailed changes" \in console

\* The languages of the table of detectLanguage.
TableLanguages ==
  {"typescript", "javascript", "python", "java", "go", "rust", "ruby", "php"}

\* The files of a working copy that are in neither a hidden directory nor
\* node_modules and have an extension of the language.
FilesOf(language, files) ==
  {j \in 1..Len(TreeEntries) :
     /\ TreeEntries[j].path \in files
     /\ TreeEntries[j].language = language
     /\ TreeEntries[j].path \notin {".cache/gen.go", "node_modules/dep.ts"}}

HowMany(language, files) == Cardinality(FilesOf(language, files))

\* The working copies with the file counts of the one at hand.
SameCounts ==
  {files \in SUBSET TreePaths :
     \A l \in TableLanguages : HowMany(l, files) = HowMany(l, disk.files)}

\* What a new analyzer answers for a working copy: typescript with the
\* typing flag if there is a TypeScript file, else javascript if there is a
\* JavaScript file, else a language with the highest file count (none when
\* no file counts).
DominantLanguage(a) ==
  IF HowMany("typescript", disk.files) > 0
    THEN a.mainLanguage = "typescript" /\ a.hasTypeScript
  ELSE IF HowMany("javascript", disk.files) > 0
    THEN a.mainLanguage = "javascript" /\ ~a.hasTypeScript
  ELSE IF \E l \in TableLanguages : HowMany(l, disk.files) > 0
    THEN /\ a.mainLanguage \in TableLanguages
         /\ \A l \in TableLanguages :
              HowMany(l, disk.files) <= HowMany(a.mainLanguage, disk.files)
         /\ ~a.hasTypeScript
  ELSE a.mainLanguage = "null" /\ ~a.hasTypeScript

\* C38: a new analyzer answers typescript (typing flag set) if any
\* TypeScript file is counted, else javascript if any JavaScript file is,
\* else the language with the highest count; files under hidden directories
\* and node_modules are not counted; and among equally counted languages the
\* answer does not depend on the order in which the files are met, so every
\* working copy with the same counts gets the same answer.
C38_DominantLanguageByTableOrder ==
  \A j \in 1..Len(wf) :
    wf[j].fresh /\ ~wf[j].threw =>
      /\ DominantLanguage(wf[j].info)
      /\ \A files \in SameCounts :
           DetectLanguage(NewAnalyzer, [disk EXCEPT !.files = files]).mainLanguage
             = wf[j].info.mainLanguage

\* The part of C38 that the code keeps: the preference for typescript and
\* javascript, the highest count, and the directories left out.
C38_DominantLanguageByCount ==
  \A j \in 1..Len(wf) :
    wf[j].fresh /\ ~wf[j].threw => DominantLanguage(wf[j].info)

\* The positions of analyzeAndIntegrate and its caller after the validation.
AfterValidation ==
  {"ai_clone", "ai_analyze", "ai_build", "ai_finally", "t_save", "t_done"}

\* The request list passes the validation of analyzeAndIntegrate.
PassesValidation ==
  \A j \in 1..Len(opts.apis) : Supported(ToLowerCase(opts.apis[j]))

\* C39: a request list that passed the case-insensitive validation of
\* analyzeAndIntegrate never makes a later step (generation, usage example,
\* index) fail on one of its names.
C39_ValidatedNamesNeverFailLater ==
  pc \in AfterValidation /\ PassesValidation => "type error" \notin console

\* The part of C39 that the code keeps: names written as the catalog writes
\* them never make a later step fail.
C39_CatalogNamesNeverFailLater ==
  pc \in AfterValidation /\ (\A j \in 1..Len(opts.apis) : Supported(opts.apis[j]))
    => "type error" \notin console

\* C40: when run has returned, the readline interface of IntegrateAndCommit
\* is closed and so is the one of the InteractiveGitWorkflow, if one was
\* created, on every exit path.
C40_InterfacesClosedOnReturn ==
  Finished => wf.runRl = "closed" /\ wf.rl # "open"

\* The part of C40 that the code keeps: a run that reached commitAndPush
\* returns with both interfaces closed.
C40_InterfacesClosedAfterCommit ==
  Finished /\ wf.returned # "none" => wf.runRl = "closed" /\ wf.rl = "closed"

====
